---- MODULE Spec2Model ----
(***************************************************************************)
(* Model of the form control of modelle (src/formControl.js): the submit   *)
(* click handler, the read-and-validate step, the display and clearing of  *)
(* field errors, and the disabling and re-enabling of the inputs.          *)
(*                                                                         *)
(* JavaScript runs one handler at a time: every action below is one        *)
(* synchronous segment of the code, from a click or the resumption of an   *)
(* await up to the next await.  Several submit() calls of the same view    *)
(* may be suspended at the same time; they share the DOM, the model and    *)
(* el.props.                                                               *)
(***************************************************************************)
EXTENDS Integers, Sequences, FiniteSets, TLC

\* Number of submit clicks dispatched in one behaviour.
MaxClicks == 2

\* Number of cancel clicks dispatched in one behaviour.
MaxCancels == 2

\* Number of addEventListeners / removeEventListeners calls, and of native
\* events dispatched, in one behaviour of the dispatcher.
MaxListenerOps == 3
MaxDispatches == 2

\* Number of removeChild / appendChild operations on the document, and of
\* cleanup() calls made by the application, in one behaviour.
MaxDomOps == 3
MaxCleanupCalls == 1

\* Number of insertions and removals of nodes while a function waits for
\* its element to be in the document.
MaxMoves == 3

\* Calls of on / listenTo / off / stopListening / trigger in a run.
MaxBusOps == 5

Null == "null"

\* ------------------------------------------------------------------ data

\* Model attributes, in the key order of the Model-Form Map.
AttrOrder == <<"name", "email">>
Attrs == {"name", "email"}

\* The form: per attribute a field element, a wrapper that may be given as
\* errorClassEl and a span that may be given as errorMessageEl.
FieldEl == [name |-> "input_name", email |-> "input_email"]
WrapEl == [name |-> "wrap_name", email |-> "wrap_email"]
MsgEl == [name |-> "msg_name", email |-> "msg_email"]
SubmitBtn == "submitBtn"
Elements ==
    {FieldEl[a] : a \in Attrs} \cup {WrapEl[a] : a \in Attrs}
        \cup {MsgEl[a] : a \in Attrs} \cup {SubmitBtn}

\* What the user typed into each field (el.value), and what a caller-supplied
\* formValueReader and transformValue make of it.
FormValue == [input_name |-> "alice", input_email |-> "mail"]
CustomRead(e) == IF e = "input_name" THEN "alice#" ELSE "mail#"
CustomTransform(v) ==
    CASE v = "alice" -> "ALICE"
      [] v = "mail" -> "MAIL"
      [] v = "alice#" -> "ALICE#"
      [] OTHER -> "MAIL#"
Values == {"alice", "mail", "alice#", "mail#", "ALICE", "MAIL", "ALICE#", "MAIL#"}

\* Errors, by identity.  Only ValidationError is an instance of the class
\* ValidationError (formControl.js:44); the others are what a reader, a
\* transformer, model.validate() or model.save() may throw, and TypeError
\* is what the engine throws on a property access of undefined or a call
\* of a non-function.
ValidationError == "ValidationError"
TypeError == "TypeError"
ReadError == "ReadError"
TransformError == "TransformError"
ModelError == "ModelError"
SaveError == "network"
NotImplemented == "not implemented"
HookError == "HookError"

\* A caller-supplied function, where a descriptor holds one.
Hook == "function"

\* A field descriptor as getModelFormMap returns it; Null is an omitted
\* key.  errorMessages maps error codes to message strings or to functions
\* (an omitted table and an empty one behave alike).  A caller gives both
\* disableInput and enableInput or neither.
Desc(a, clsEl, msgEl, msgs, reader, transform, cls, hooks) ==
    [el |-> FieldEl[a],
     errorClassEl |-> IF clsEl THEN WrapEl[a] ELSE Null,
     errorMessageEl |-> IF msgEl THEN MsgEl[a] ELSE Null,
     errorMessages |-> msgs,
     formValueReader |-> IF reader THEN Hook ELSE Null,
     transformValue |-> IF transform THEN Hook ELSE Null,
     errorClass |-> cls,
     disableInput |-> IF hooks THEN Hook ELSE Null,
     enableInput |-> IF hooks THEN Hook ELSE Null]

NoMessages == [c \in {} |-> ""]
NameMessages == [required |-> "Name is required"]
EmailMessages == [required |-> Hook]
MailMessages == [required |-> "E-mail is required"]

\* The maps getModelFormMap may return.  The form may change between two
\* attempts, so each call returns any of them.
FormMaps ==
    { [name |-> Desc("name", FALSE, TRUE, NameMessages, FALSE, FALSE, Null, FALSE)],
      [name |-> Desc("name", TRUE, FALSE, NoMessages, FALSE, FALSE, Null, FALSE)],
      [email |-> Desc("email", FALSE, FALSE, EmailMessages, TRUE, TRUE, "customError", TRUE)],
      [name |-> Desc("name", FALSE, FALSE, NoMessages, FALSE, TRUE, Null, FALSE),
       email |-> Desc("email", TRUE, TRUE, MailMessages, FALSE, FALSE, Null, TRUE)] }

\* The errors mappings a ValidationError of model.validate() may carry:
\* attribute -> {code, message}, "" for an omitted code or message.
\* model.validate() validates the whole model, so it may report an attribute
\* the current Model-Form Map does not have.
VErrors ==
    { [name |-> [code |-> "required", message |-> ""]],
      [email |-> [code |-> "required", message |-> "Bad e-mail"]],
      [name |-> [code |-> "required", message |-> ""],
       email |-> [code |-> "unknown", message |-> ""]] }

\* The key order of a ValidationError's errors: the order in which
\* model.validate() reported the attributes.
ErrAttrOrder == <<"email", "name">>

Keys(m) == SelectSeq(AttrOrder, LAMBDA a : a \in DOMAIN m)
ErrKeys(errors) == SelectSeq(ErrAttrOrder, LAMBDA a : a \in DOMAIN errors)

\* createView's default for options.errorClass.
DefaultErrorClass == "erroneousInput"
Hidden == "hidden"

\* ----------------------------------------------------------------- state

VARIABLES
    btnNative,      \* the submit element is a form control: the platform
                    \* dispatches no click on it while it is disabled
    classList,      \* element -> set of CSS classes
    innerHTML,      \* error message element -> its text
    disabled,       \* element -> its disabled property
    hooked,         \* field element -> disabled by its disableInput hook
    spinner,        \* the loading indicator is shown
    model,          \* el.props.model: attribute -> value
    normalizedModelFormMap,   \* el.props._normalizedModelFormMap
    sess,           \* one record per submit() call, by click number
    clicks,         \* submit clicks dispatched so far
    canceled,       \* calls of el.props.onCanceled so far
    norm,           \* a Model-Form Map under normalize(), see SpecNormalize
    version,        \* which copy of the Controller runs, see SpecDispatch
    eventListenersMap,      \* what getEventListeners() returns
    nativeListeners,        \* event name -> live listeners on the view root
    actualEventListeners,   \* this.actualEventListeners: its event names
    listenerOps,    \* addEventListeners / removeEventListeners calls so far
    lastOp,         \* the last of them
    dispatches,     \* native events dispatched so far
    dispatched,     \* the last native event and the handlers it fired
    detached,       \* nodes removed from their parent, see SpecLifecycle
    controller,     \* elements that have a _modelleController
    hookCallsCleanup,   \* view -> its onViewRemovedFromDOM calls cleanup()
    mutations,      \* removal records not yet delivered to the observer
    runs,           \* the observer callbacks started so far
    hookLog,        \* views whose onViewRemovedFromDOM was called, in order
    cleanupLog,     \* cleanup() calls, in order
    domOps,         \* removeChild / appendChild operations so far
    onDom,          \* a function waiting for its element, see SpecOnDOM
    fetchCall,      \* a call of fetch2, see SpecFetch
    collection,     \* a Collection and its fetch, see SpecCollection
    bus             \* objects with the Events mixin, see SpecEvents

formVars ==
    <<btnNative, classList, innerHTML, disabled, hooked, spinner, model,
      normalizedModelFormMap, sess, clicks>>

ctlVars ==
    <<version, eventListenersMap, nativeListeners, actualEventListeners,
      listenerOps, lastOp, dispatches, dispatched>>

lifeVars ==
    <<detached, controller, hookCallsCleanup, mutations, runs, hookLog,
      cleanupLog, domOps, onDom>>

dataVars == <<collection, bus>>

vars == <<formVars, canceled, norm, ctlVars, lifeVars, fetchCall, dataVars>>

Sessions == 1..MaxClicks

\* No Model-Form Map yet.
EmptyMap == [a \in {} |-> Null]

\* A submit() call: where it is suspended, its local variables and the log
\* of what it called.
NewSession ==
    [pc |-> "idle",
     modelFormMap |-> EmptyMap,    \* validate's local modelFormMap
     idx |-> 0,                  \* readFormIntoModel's position in the keys
     formValue |-> Null,         \* readFormIntoModel's local formValue
     raised |-> Null,            \* the error model.validate() rejected with
     errors |-> EmptyMap,        \* the errors of its ValidationError
     error |-> Null,             \* the error validate(el) rejected with
     saveError |-> Null,         \* the error saveModel(el) rejected with
     calls |-> <<>>,             \* the calls made, in order
     didDisable |-> {}]          \* the elements its disableAllInputs disabled

Call(op, arg) == [op |-> op, arg |-> arg]

\* No map under normalize().
NormIdle ==
    [stage |-> 0, errorClass |-> Null, raw |-> EmptyMap, once |-> EmptyMap,
     twice |-> EmptyMap]

FormInitWith(m) ==
    /\ btnNative \in BOOLEAN
    /\ classList = [e \in Elements |->
                        IF e \in {MsgEl[a] : a \in Attrs} THEN {Hidden} ELSE {}]
    /\ innerHTML = [e \in {MsgEl[a] : a \in Attrs} |-> ""]
    /\ disabled = [e \in Elements |-> FALSE]
    /\ hooked = [e \in {FieldEl[a] : a \in Attrs} |-> FALSE]
    /\ spinner = FALSE
    /\ model = m
    /\ normalizedModelFormMap = EmptyMap
    /\ sess = [s \in Sessions |-> NewSession]
    /\ clicks = 0

\* options.model as the application supplies it: an object whose attributes
\* are not set yet.
SuppliedModel == [a \in Attrs |-> Null]

\* options.model left out: el.props.model is undefined.
NoModel == [undefined |-> TRUE]

FormInit == FormInitWith(SuppliedModel)

\* The two copies of the Controller class in the repository.
Versions == {"modelle.js", "part_001"}

EventNames == {"click", "keyup"}

\* No native event dispatched yet.
NoDispatch ==
    [type |-> Null, target |-> Null, listeners |-> 0, fired |-> <<>>,
     threw |-> Null, nativeStopped |-> FALSE]

\* A view whose listeners were never attached.
CtlIdle(v, m) ==
    /\ version = v
    /\ eventListenersMap = m
    /\ nativeListeners = [n \in EventNames |-> 0]
    /\ actualEventListeners = {}
    /\ listenerOps = 0
    /\ lastOp = Null
    /\ dispatches = 0
    /\ dispatched = NoDispatch

\* The elements that are views (have a _modelleController).
Views == {"v1", "v2", "v3"}

\* fetch2 not called.
NoFetch == [pc |-> "idle"]

\* No function waits for an element.
NoWaiter ==
    [pc |-> "idle", element |-> Null, pending |-> <<>>, ran |-> 0, moves |-> 0]

\* A Collection on which fetch was not called.
NoCollection == [pc |-> "idle"]

\* The objects that trigger events, the objects that listen to them, the
\* event names and the callbacks.
Objs == {"a", "b"}
Listeners == {"l1", "l2"}
Names == {"x", "y", "all"}
Callbacks == {"f", "g", "h", "u"}

\* No operation of the Events mixin called yet.
NoBusOp ==
    [op |-> Null, obj |-> Null, name |-> Null, callback |-> Null,
     context |-> Null, calls |-> <<>>, threw |-> Null]

\* Objects on which nothing was ever bound: _events, _listeners and
\* _listeningTo are undefined.  underscore: whether the page defines the
\* global _ that the module uses without importing it.
NoBus(u) ==
    [underscore |-> u,
     hasEvents |-> [o \in Objs |-> FALSE],
     events |-> [o \in Objs |-> [n \in Names |-> <<>>]],
     listeners |-> [o \in Objs |-> {}],
     listeningTo |-> [l \in Listeners |-> [o \in Objs |-> -1]],
     ops |-> 0,
     last |-> NoBusOp]

DataIdle ==
    /\ collection = NoCollection
    /\ bus = NoBus(TRUE)

\* Every view in the document, nothing removed yet.
LifeIdle(h) ==
    /\ detached = {}
    /\ controller = Views
    /\ hookCallsCleanup = h
    /\ mutations = <<>>
    /\ runs = <<>>
    /\ hookLog = <<>>
    /\ cleanupLog = <<>>
    /\ domOps = 0
    /\ onDom = NoWaiter
    /\ fetchCall = NoFetch
    /\ DataIdle

\* The base class: onViewRemovedFromDOM is empty.
BaseHooks == [v \in Views |-> FALSE]

\* The form control declares its two click selectors (getEventListeners).
FormListeners == [click |-> <<"submitBtnSelector", "cancelBtnSelector">>]

Init ==
    /\ FormInit
    /\ canceled = 0
    /\ norm = NormIdle
    /\ CtlIdle("part_001", FormListeners)
    /\ LifeIdle(BaseHooks)

\* ------------------------------------------------- formControl.js helpers

\* Variants of normalize with one slip each: the transformer wrapped on
\* every call, the field's own errorClass overwritten.
normalizeField_Rewraps(map, errorClass) ==
    [map EXCEPT
        !.transformValue = IF @ = Null THEN "identity" ELSE Hook,
        !.formValueReader = IF @ = Null THEN "value" ELSE @,
        !.errorClassEl = IF @ = Null THEN map.el ELSE @,
        !.errorClass = IF @ = Null THEN errorClass ELSE @]

normalizeField_OverwritesClass(map, errorClass) ==
    [map EXCEPT
        !.transformValue = IF @ = Null THEN "identity" ELSE @,
        !.formValueReader = IF @ = Null THEN "value" ELSE @,
        !.errorClassEl = IF @ = Null THEN map.el ELSE @,
        !.errorClass = errorClass]

\* normalize(el, modelFormMap): fill the omitted keys of every descriptor.
normalizeField(map, errorClass) ==
    [map EXCEPT
        !.transformValue = IF @ = Null THEN "identity" ELSE @,
        !.formValueReader = IF @ = Null THEN "value" ELSE @,
        !.errorClassEl = IF @ = Null THEN map.el ELSE @,
        !.errorClass = IF @ = Null THEN errorClass ELSE @]

normalize(modelFormMap, errorClass) ==
    [attribute \in DOMAIN modelFormMap |->
        normalizeField(modelFormMap[attribute], errorClass)]

\* disableAllInputs(el), as far as it gets: the fields of the first n keys,
\* then (withBtn) the submit button.  Result: [disabled, hooked].
RECURSIVE disableFields(_, _, _, _)
disableFields(m, n, dis, hk) ==
    IF n = 0 THEN [disabled |-> dis, hooked |-> hk]
    ELSE LET prev == disableFields(m, n - 1, dis, hk)
             map == m[Keys(m)[n]]
         IN  IF map.disableInput # Null
             THEN [prev EXCEPT !.hooked[map.el] = TRUE]
             ELSE [prev EXCEPT !.disabled[map.el] = TRUE]

disableAllInputs(m, dis, hk) ==
    LET f == disableFields(m, Len(Keys(m)), dis, hk)
    IN  [f EXCEPT !.disabled[SubmitBtn] = TRUE]

\* enableAllInputs(el), over the map el.props holds when it runs.
RECURSIVE enableFields(_, _, _, _)
enableFields(m, n, dis, hk) ==
    IF n = 0 THEN [disabled |-> dis, hooked |-> hk]
    ELSE LET prev == enableFields(m, n - 1, dis, hk)
             map == m[Keys(m)[n]]
         IN  IF map.enableInput # Null
             THEN [prev EXCEPT !.hooked[map.el] = FALSE]
             ELSE [prev EXCEPT !.disabled[map.el] = FALSE]

enableAllInputs(m, dis, hk) ==
    LET f == enableFields(m, Len(Keys(m)), dis, hk)
    IN  [f EXCEPT !.disabled[SubmitBtn] = FALSE]

\* validate(el), lines 158-172: clear the form of any errors, over the first
\* n keys.  Result: [classList, innerHTML].
RECURSIVE clearErrors(_, _, _, _)
clearErrors(m, n, cl, html) ==
    IF n = 0 THEN [classList |-> cl, innerHTML |-> html]
    ELSE LET prev == clearErrors(m, n - 1, cl, html)
             map == m[Keys(m)[n]]
         IN  IF map.errorMessageEl # Null
             THEN [classList |->
                       [prev.classList EXCEPT
                           ![map.el] = @ \ {map.errorClass},
                           ![map.errorMessageEl] = @ \cup {Hidden}],
                   innerHTML |->
                       [prev.innerHTML EXCEPT ![map.errorMessageEl] = ""]]
             ELSE prev

\* validate(el), lines 184-215: display one reported attribute.  dom is
\* [classList, innerHTML, calls, threw]; a TypeError ends the display.
showError(m, erroneousAttribute, error, dom) ==
    IF erroneousAttribute \notin DOMAIN m
    THEN [dom EXCEPT !.threw = TRUE]      \* mapping is undefined
    ELSE
    LET mapping == m[erroneousAttribute]
        hasMessage ==
            error.code \in DOMAIN mapping.errorMessages
        marked ==
            [dom EXCEPT !.classList[mapping.el] = @ \cup {mapping.errorClass}]
    IN  IF mapping.errorMessageEl # Null
        THEN LET text == IF error.message # "" THEN error.message
                         ELSE IF hasMessage
                              THEN mapping.errorMessages[error.code]
                              ELSE dom.innerHTML[mapping.errorMessageEl]
             IN  [marked EXCEPT
                     !.innerHTML[mapping.errorMessageEl] = text,
                     !.classList[mapping.errorMessageEl] = @ \ {Hidden}]
        ELSE IF hasMessage
             THEN IF mapping.errorMessages[error.code] = Hook
                  THEN [marked EXCEPT
                           !.calls = Append(@, Call("errorMessages", error.code))]
                  ELSE [dom EXCEPT !.threw = TRUE]   \* a string is not callable
             ELSE marked

RECURSIVE showErrors(_, _, _, _)
showErrors(m, errors, n, dom) ==
    IF n = 0 THEN dom
    ELSE LET prev == showErrors(m, errors, n - 1, dom)
             erroneousAttribute == ErrKeys(errors)[n]
         IN  IF prev.threw THEN prev
             ELSE showError(m, erroneousAttribute, errors[erroneousAttribute], prev)

\* Variants of the catch around validate(el) and of the lines after
\* saveModel(el), each with one slip: the return moved into the if, the
\* error dropped, the instanceof test lost, onSubmitted forgotten.
catchValidate_ReturnInsideIf(e, calls) ==
    [calls |-> IF e # ValidationError
               THEN Append(calls, Call("onSubmitError", e))
               ELSE calls,
     goesOn |-> e = ValidationError,
     throws |-> FALSE]

catchValidate_Swallows(e, calls) ==
    [calls |-> calls, goesOn |-> FALSE, throws |-> FALSE]

catchValidate_ForwardsAll(e, calls) ==
    [calls |-> Append(calls, Call("onSubmitError", e)),
     goesOn |-> FALSE,
     throws |-> FALSE]

\* The submitted callback moved behind the cleanup.
afterSave_CleansFirst(e, calls) ==
    IF e # Null
    THEN Append(calls, Call("onSubmitError", e))
    ELSE calls \o <<Call("removeLoadingSpinner", Null),
                    Call("enableAllInputs", Null),
                    Call("onSubmitted", Null)>>

afterSave_NoSubmitted(e, calls) ==
    IF e # Null
    THEN Append(calls, Call("onSubmitError", e))
    ELSE calls

\* submit(el), lines 253-260: the catch around validate(el).  Result: the
\* calls made, whether submit() goes on to save (it never does: line 259
\* returns) and whether the catch throws again.
catchValidate(e, calls) ==
    [calls |-> IF e # ValidationError
               THEN Append(calls, Call("onSubmitError", e))
               ELSE calls,
     goesOn |-> FALSE,
     throws |-> FALSE]

\* submit(el), lines 261-270: saveModel(el) settled, with error e or Null.
afterSave(e, calls) ==
    IF e # Null
    THEN Append(calls, Call("onSubmitError", e))
    ELSE Append(calls, Call("onSubmitted", Null))

\* submit(el), lines 272-276: the finally block.
\* Result: [spinner, disabled, hooked, calls].
finally(calls) ==
    LET f == enableAllInputs(normalizedModelFormMap, disabled, hooked)
    IN  [spinner |-> FALSE,
         disabled |-> f.disabled,
         hooked |-> f.hooked,
         calls |-> calls \o <<Call("removeLoadingSpinner", Null),
                              Call("enableAllInputs", Null)>>]

\* ---------------------------------------------------------------- actions

\* The hooks of the synchronous head of submit() that may throw.
Heads == {"ok", "showLoadingSpinner", "getModelFormMap", "disableInput"}

\* The first key whose descriptor has a disableInput hook, 0 if none.
FirstHook(m) ==
    LET ks == {n \in 1..Len(Keys(m)) : m[Keys(m)[n]].disableInput # Null}
    IN  IF ks = {} THEN 0 ELSE CHOOSE n \in ks : \A k \in ks : n <= k

\* A click on the submit button: the dispatcher calls submit(), which runs
\* lines 242-246 and then validate(el) up to the first await of
\* readFormIntoModel (lines 155-174, 226-233).
submit(s) ==
    /\ sess[s].pc = "idle"
    /\ s = clicks + 1
    /\ ~(btnNative /\ disabled[SubmitBtn])
    /\ clicks' = clicks + 1
    /\ \E head \in Heads, raw \in FormMaps :
        LET m == normalize(raw, DefaultErrorClass)
            c1 == <<Call("showLoadingSpinner", Null)>>
            c2 == Append(c1, Call("getModelFormMap", Null))
            c3 == c2 \o <<Call("normalize", Null), Call("disableAllInputs", Null)>>
        IN  CASE head = "showLoadingSpinner" ->
                    /\ sess' = [sess EXCEPT ![s].pc = "threw",
                                            ![s].error = HookError,
                                            ![s].calls = c1]
                    /\ UNCHANGED <<classList, innerHTML, disabled, hooked,
                                   spinner, normalizedModelFormMap>>
              [] head = "getModelFormMap" ->
                    /\ spinner' = TRUE
                    /\ sess' = [sess EXCEPT ![s].pc = "threw",
                                            ![s].error = NotImplemented,
                                            ![s].calls = c2]
                    /\ UNCHANGED <<classList, innerHTML, disabled, hooked,
                                   normalizedModelFormMap>>
              [] head = "disableInput" ->
                    /\ FirstHook(m) # 0
                    /\ spinner' = TRUE
                    /\ normalizedModelFormMap' = m
                    /\ LET d == disableFields(m, FirstHook(m) - 1, disabled, hooked)
                       IN  /\ disabled' = d.disabled
                           /\ hooked' = d.hooked
                           /\ sess' = [sess EXCEPT
                                  ![s].pc = "threw",
                                  ![s].error = HookError,
                                  ![s].calls = c3,
                                  ![s].didDisable =
                                      {e \in Elements : d.disabled[e] /\ ~disabled[e]}]
                    /\ UNCHANGED <<classList, innerHTML>>
              [] OTHER ->
                    /\ spinner' = TRUE
                    /\ normalizedModelFormMap' = m
                    /\ LET d == disableAllInputs(m, disabled, hooked)
                           c == clearErrors(m, Len(Keys(m)), classList, innerHTML)
                       IN  /\ disabled' = d.disabled
                           /\ hooked' = d.hooked
                           /\ classList' = c.classList
                           /\ innerHTML' = c.innerHTML
                           /\ sess' = [sess EXCEPT
                                  ![s].pc = "formValueReader",
                                  ![s].modelFormMap = m,
                                  ![s].idx = 1,
                                  ![s].calls = c3 \o
                                      <<Call("validate", Null),
                                        Call("clearErrors", Null),
                                        Call("formValueReader", Keys(m)[1])>>,
                                  ![s].didDisable =
                                      {FieldEl[a] : a \in DOMAIN m} \cup {SubmitBtn}]
    /\ UNCHANGED <<btnNative, model>>

\* validate(el) rejects with e: submit() resumes in its catch.
Rejected(s, e) ==
    [sess EXCEPT ![s].pc = "validate", ![s].error = e]

\* readFormIntoModel, line 233 resumes: the reader's value arrives, or its
\* rejection; line 234 calls transformValue.
formValueReader(s) ==
    /\ sess[s].pc = "formValueReader"
    /\ LET mapping == sess[s].modelFormMap[Keys(sess[s].modelFormMap)[sess[s].idx]]
       IN  \E throws \in BOOLEAN :
            IF throws
            THEN /\ mapping.formValueReader = Hook
                 /\ sess' = Rejected(s, ReadError)
            ELSE sess' = [sess EXCEPT
                    ![s].pc = "transformValue",
                    ![s].formValue =
                        IF mapping.formValueReader = Hook
                        THEN CustomRead(mapping.el) ELSE FormValue[mapping.el],
                    ![s].calls = Append(@, Call("transformValue",
                        Keys(sess[s].modelFormMap)[sess[s].idx]))]
    /\ UNCHANGED <<btnNative, classList, innerHTML, disabled, hooked, spinner,
                   model, normalizedModelFormMap, clicks>>

\* readFormIntoModel returning from inside its loop, after the first
\* attribute.
transformValue_ReturnsEarly(s) ==
    /\ sess[s].pc = "transformValue"
    /\ LET attribute == Keys(sess[s].modelFormMap)[sess[s].idx]
           mapping == sess[s].modelFormMap[attribute]
           value == IF mapping.transformValue = Hook
                    THEN CustomTransform(sess[s].formValue)
                    ELSE sess[s].formValue
       IN  /\ model' = [model EXCEPT ![attribute] = value]
           /\ sess' = [sess EXCEPT
                  ![s].pc = "readFormIntoModel",
                  ![s].calls = Append(@, Call("modelAttributeSetter", attribute))]
    /\ UNCHANGED <<btnNative, classList, innerHTML, disabled, hooked, spinner,
                   normalizedModelFormMap, clicks>>

\* The default modelAttributeSetter, model[attribute] = value: what it
\* throws.  Setting a property of undefined is a TypeError.
modelAttributeSetter(m) == IF m = NoModel THEN TypeError ELSE Null

\* readFormIntoModel, line 234 resumes; line 235 sets the attribute, and the
\* loop goes on to the next key or returns.
transformValue(s) ==
    /\ sess[s].pc = "transformValue"
    /\ LET keys == Keys(sess[s].modelFormMap)
           attribute == keys[sess[s].idx]
           mapping == sess[s].modelFormMap[attribute]
           value == IF mapping.transformValue = Hook
                    THEN CustomTransform(sess[s].formValue)
                    ELSE sess[s].formValue
       IN  \E throws \in BOOLEAN :
            IF throws
            THEN /\ mapping.transformValue = Hook
                 /\ sess' = Rejected(s, TransformError)
                 /\ UNCHANGED model
            ELSE IF modelAttributeSetter(model) # Null
            THEN /\ sess' = Rejected(s, modelAttributeSetter(model))
                 /\ UNCHANGED model
            ELSE /\ model' = [model EXCEPT ![attribute] = value]
                 /\ sess' = [sess EXCEPT
                        ![s].pc = IF sess[s].idx < Len(keys)
                                  THEN "formValueReader" ELSE "readFormIntoModel",
                        ![s].idx = IF sess[s].idx < Len(keys) THEN @ + 1 ELSE @,
                        ![s].calls =
                            IF sess[s].idx < Len(keys)
                            THEN @ \o <<Call("modelAttributeSetter", attribute),
                                        Call("formValueReader", keys[sess[s].idx + 1])>>
                            ELSE Append(@, Call("modelAttributeSetter", attribute))]
    /\ UNCHANGED <<btnNative, classList, innerHTML, disabled, hooked, spinner,
                   normalizedModelFormMap, clicks>>

\* validate(el), line 174 resumes: the form was read; line 177 calls
\* props.model.validate().
readFormIntoModel(s) ==
    /\ sess[s].pc = "readFormIntoModel"
    /\ sess' = [sess EXCEPT ![s].pc = "model.validate",
                            ![s].calls = Append(@, Call("model.validate", Null))]
    /\ UNCHANGED <<btnNative, classList, innerHTML, disabled, hooked, spinner,
                   model, normalizedModelFormMap, clicks>>

\* validate(el), line 177 resumes: model.validate() resolved, or rejected
\* with some error or with a ValidationError, which lines 182-216 display.
validate(s) ==
    /\ sess[s].pc = "model.validate"
    /\ \/ /\ sess' = [sess EXCEPT ![s].pc = "validate", ![s].error = Null]
          /\ UNCHANGED <<classList, innerHTML>>
       \/ /\ sess' = [Rejected(s, ModelError) EXCEPT ![s].raised = ModelError]
          /\ UNCHANGED <<classList, innerHTML>>
       \/ \E errors \in VErrors :
            LET dom == showErrors(sess[s].modelFormMap, errors,
                                  Len(ErrKeys(errors)),
                                  [classList |-> classList,
                                   innerHTML |-> innerHTML,
                                   calls |-> sess[s].calls,
                                   threw |-> FALSE])
            IN  /\ classList' = dom.classList
                /\ innerHTML' = dom.innerHTML
                /\ sess' = [sess EXCEPT
                       ![s].pc = "validate",
                       ![s].raised = ValidationError,
                       ![s].errors = errors,
                       ![s].error = IF dom.threw THEN TypeError
                                    ELSE ValidationError,
                       ![s].calls = dom.calls]
    /\ UNCHANGED <<btnNative, disabled, hooked, spinner, model,
                   normalizedModelFormMap, clicks>>

\* submit(), line 251 resumes: lines 253-260 on a rejection, else line 263
\* calls saveModel.
afterValidate(s) ==
    /\ sess[s].pc = "validate"
    /\ LET caught == catchValidate(sess[s].error, sess[s].calls)
           f == finally(caught.calls)
       IN  IF sess[s].error # Null /\ ~caught.goesOn
           THEN /\ spinner' = f.spinner
                /\ disabled' = f.disabled
                /\ hooked' = f.hooked
                /\ sess' = [sess EXCEPT
                       ![s].pc = IF caught.throws THEN "threw" ELSE "done",
                       ![s].calls = f.calls]
           ELSE /\ sess' = [sess EXCEPT
                       ![s].pc = "saveModel",
                       ![s].calls =
                           Append(IF sess[s].error # Null
                                  THEN caught.calls ELSE @,
                                  Call("saveModel", Null))]
                /\ UNCHANGED <<spinner, disabled, hooked>>
    /\ UNCHANGED <<btnNative, classList, innerHTML, model,
                   normalizedModelFormMap, clicks>>

\* submit(), line 263 resumes: lines 265-269 on a rejection, else line 270;
\* then the finally block.
saveModel(s) ==
    /\ sess[s].pc = "saveModel"
    /\ \E e \in {Null, SaveError} :
        LET settled == Append(sess[s].calls, Call("saveModel.settled", e))
            f == finally(afterSave(e, settled))
        IN  /\ spinner' = f.spinner
            /\ disabled' = f.disabled
            /\ hooked' = f.hooked
            /\ sess' = [sess EXCEPT
                   ![s].pc = "done",
                   ![s].saveError = e,
                   ![s].calls = f.calls]
    /\ UNCHANGED <<btnNative, classList, innerHTML, model,
                   normalizedModelFormMap, clicks>>

FormNext ==
    \E s \in Sessions :
        \/ submit(s)
        \/ formValueReader(s)
        \/ transformValue(s)
        \/ readFormIntoModel(s)
        \/ validate(s)
        \/ afterValidate(s)
        \/ saveModel(s)

Next == FormNext /\ UNCHANGED <<canceled, norm, ctlVars, lifeVars, fetchCall, dataVars>>

Spec == Init /\ [][Next]_vars

\* The same view with a submit element that is a form control: no click
\* reaches it while it is disabled, so attempts follow one another.
InitNative == Init /\ btnNative
SpecNative == InitNative /\ [][Next]_vars

\* How the create request of Model._create() ends: fetch2 returns, or
\* throws FetchError (network failure) or HttpError (status not ok).
FetchError == "FetchError"
HttpError == "HttpError"
RequestOutcomes == {"ok", FetchError, HttpError}

\* Model._create() with the request awaited.
Model_create_Awaits(outcome) == IF outcome = "ok" THEN Null ELSE outcome

\* Model._create(): what its promise settles with.  fetch2(url, ...) is
\* called without await, so _create() goes on and resolves whatever the
\* request does.
Model_create(outcome) == Null

\* Model.save(): creates the model when it has no id, else does nothing.
Model_save(id, outcome) == IF id = Null THEN Model_create(outcome) ELSE Null

\* submit(), line 263 resumes for the default saveModel, el.props.model.save():
\* as saveModel(s), with the promise of Model.save().
modelSave(s) ==
    /\ sess[s].pc = "saveModel"
    /\ \E id \in {Null, "id1"}, outcome \in RequestOutcomes :
        LET e == Model_save(id, outcome)
            requested == IF id = Null
                         THEN <<Call("model.save", id), Call("fetch2", outcome)>>
                         ELSE <<Call("model.save", id)>>
            settled == Append(sess[s].calls \o requested,
                              Call("saveModel.settled", e))
            f == finally(afterSave(e, settled))
        IN  /\ spinner' = f.spinner
            /\ disabled' = f.disabled
            /\ hooked' = f.hooked
            /\ sess' = [sess EXCEPT
                   ![s].pc = "done",
                   ![s].saveError = e,
                   ![s].calls = f.calls]
    /\ UNCHANGED <<btnNative, classList, innerHTML, model,
                   normalizedModelFormMap, clicks>>
    /\ UNCHANGED <<canceled, norm, ctlVars, lifeVars, fetchCall, dataVars>>

NextSave == Next \/ \E s \in Sessions : modelSave(s)

SpecSave == InitNative /\ [][NextSave]_vars

\* A form control created with or without options.model: createView copies
\* options.model into el.props.model as it is.
InitModel ==
    /\ \E m \in {SuppliedModel, NoModel} : FormInitWith(m)
    /\ btnNative
    /\ canceled = 0
    /\ norm = NormIdle
    /\ CtlIdle("part_001", FormListeners)
    /\ LifeIdle(BaseHooks)

SpecModel == InitModel /\ [][Next]_vars

\* ---------------------------------------------------------------- cancel

\* A variant of cancel that goes through the head of submit().
cancel_ShowsSpinner ==
    /\ canceled < MaxCancels
    /\ canceled' = canceled + 1
    /\ spinner' = TRUE
    /\ UNCHANGED <<btnNative, classList, innerHTML, disabled, hooked, model,
                   normalizedModelFormMap, sess, clicks, norm, ctlVars,
                   lifeVars, fetchCall, dataVars>>

\* A click on the cancel button: getEventListeners maps cancelBtnSelector
\* to cancel, which calls el.props.onCanceled and nothing else.  The cancel
\* button is no mapped field: it is never disabled.
cancel ==
    /\ canceled < MaxCancels
    /\ canceled' = canceled + 1
    /\ UNCHANGED <<formVars, norm, ctlVars, lifeVars, fetchCall, dataVars>>

NextCancel == Next \/ cancel

SpecCancel == InitNative /\ [][NextCancel]_vars

\* ------------------------------------------------------------- normalize

\* normalize() on its own: every Model-Form Map over the attributes, each
\* defaulted key given or omitted, under either view-level errorClass, is
\* normalized and then normalized again (each submit() normalizes the map
\* getModelFormMap returns, which may be the object it returned before).
RawDescs(a) ==
    {Desc(a, clsEl, msgEl, NoMessages, reader, transform, cls, FALSE) :
        clsEl \in BOOLEAN, msgEl \in BOOLEAN, reader \in BOOLEAN,
        transform \in BOOLEAN, cls \in {Null, "customError"}}

RawMaps ==
    {[a \in {"name"} |-> d] : d \in RawDescs("name")}
        \cup {[a \in {"email"} |-> d] : d \in RawDescs("email")}
        \cup {[a \in Attrs |-> IF a = "name" THEN d ELSE e] :
                d \in RawDescs("name"), e \in RawDescs("email")}

ViewErrorClasses == {DefaultErrorClass, "viewError"}

InitNormalize ==
    /\ FormInit
    /\ btnNative
    /\ canceled = 0
    /\ CtlIdle("part_001", FormListeners)
    /\ LifeIdle(BaseHooks)
    /\ norm \in {[NormIdle EXCEPT !.raw = m, !.errorClass = c] :
                    m \in RawMaps, c \in ViewErrorClasses}

normalizeOnce ==
    /\ norm.stage = 0
    /\ norm' = [norm EXCEPT !.stage = 1,
                            !.once = normalize(norm.raw, norm.errorClass)]
    /\ UNCHANGED <<formVars, canceled, ctlVars, lifeVars, fetchCall, dataVars>>

normalizeAgain ==
    /\ norm.stage = 1
    /\ norm' = [norm EXCEPT !.stage = 2,
                            !.twice = normalize(norm.once, norm.errorClass)]
    /\ UNCHANGED <<formVars, canceled, ctlVars, lifeVars, fetchCall, dataVars>>

NextNormalize == normalizeOnce \/ normalizeAgain

SpecNormalize == InitNormalize /\ [][NextNormalize]_vars

\* ------------------------------------------------------------ dispatcher
\* Controller.addEventListeners / removeEventListeners, in the two copies of
\* the class: src/modelle.js and src/unnamed/part_001.  One native listener
\* per event name is added to the view root; it walks the declared selectors
\* of that event name and calls one handler.

\* The view root and what is below it: view > .a > (.b > t, c).
ViewEl == "view"
Parent == [t |-> "b", b |-> "a", c |-> "a", a |-> ViewEl, view |-> "body"]
Targets == DOMAIN Parent

\* An element followed by its ancestors, innermost first.
RECURSIVE Path(_)
Path(e) == IF e \notin DOMAIN Parent THEN <<e>> ELSE <<e>> \o Path(Parent[e])

Depth(e) == Len(Path(e))

Selectors == {".a", ".a .b", ".b", ""}

\* Element.matches for the selectors above.
Matches(e, selector) ==
    CASE selector = ".a" -> e = "a"
      [] selector = ".b" -> e = "b"
      [] selector = ".a .b" -> e = "b" /\ \E i \in 2..Len(Path(e)) : Path(e)[i] = "a"
      [] OTHER -> FALSE

\* Element.closest: the nearest ancestor-or-self that matches, or null.
closest(e, selector) ==
    LET hits == SelectSeq(Path(e), LAMBDA x : Matches(x, selector))
    IN  IF hits = <<>> THEN Null ELSE hits[1]

\* The selectors of one event name, in declaration order (Object.keys).
Distinct(l) == \A i, j \in DOMAIN l : l[i] = l[j] => i = j

SelectorLists ==
    {l \in [1..1 -> Selectors] \cup [1..2 -> Selectors]
             \cup [1..3 -> Selectors] : Distinct(l)}

ListenerMaps == {[click |-> l, keyup |-> <<".a">>] : l \in SelectorLists}

\* What a handler does with the event it is given.
HandlerActs ==
    {"return", "stopPropagation", "stopImmediatePropagation", "throw"}

SyntaxError == "SyntaxError"

\* listener(clonedEvent): the handler of selector, called with el as the
\* event's target.  The cloned event is the one argument; it has no
\* delegatorTarget key.  Only part_001 puts stopPropagation on the cloned event;
\* neither copy puts stopImmediatePropagation on it, and Object.assign
\* copies no method of the event's prototype.
invoke(ver, selector, el, act) ==
    LET hasStop == ver = "part_001"
    IN  [selector |-> selector,
         arguments |-> <<"clonedEvent">>,
         target |-> el,
         delegatorTarget |-> Null,
         act |-> act,
         stopped |-> act = "stopPropagation" /\ hasStop,
         threw |-> CASE act = "throw" -> HookError
                     [] act = "stopPropagation" /\ ~hasStop -> TypeError
                     [] act = "stopImmediatePropagation" -> TypeError
                     [] OTHER -> Null]

\* The loop over the selectors with the handler call wrapped in a try/catch
\* that drops the error.
RECURSIVE selectorLoop_Catches(_, _, _, _, _)
selectorLoop_Catches(ver, eventListeners, target, act, i) ==
    IF i > Len(eventListeners)
    THEN [fired |-> <<>>, threw |-> Null]
    ELSE LET selector == eventListeners[i]
             el == IF selector # "" THEN closest(target, selector) ELSE ViewEl
         IN  IF el # Null
             THEN [fired |-> <<invoke(ver, selector, el, act)>>, threw |-> Null]
             ELSE selectorLoop_Catches(ver, eventListeners, target, act, i + 1)

\* The loop over the selectors of actualEventListener, from the i-th on.
RECURSIVE selectorLoop(_, _, _, _, _)
selectorLoop(ver, eventListeners, target, act, i) ==
    IF i > Len(eventListeners)
    THEN [fired |-> <<>>, threw |-> Null]
    ELSE LET selector == eventListeners[i]
         IN  IF ver = "modelle.js" /\ selector = ""
             THEN [fired |-> <<>>, threw |-> SyntaxError]
             ELSE LET el == IF selector # "" THEN closest(target, selector)
                            ELSE ViewEl
                  IN  IF el # Null
                      THEN LET call == invoke(ver, selector, el, act)
                           IN  [fired |-> <<call>>, threw |-> call.threw]
                      ELSE selectorLoop(ver, eventListeners, target, act, i + 1)

\* actualEventListener without its return: every matching selector's handler
\* is called, in declaration order.
actualEventListener_NoReturn(ver, eventListeners, target, act) ==
    LET el(i) == IF eventListeners[i] # ""
                 THEN closest(target, eventListeners[i]) ELSE ViewEl
        idx == SelectSeq([i \in DOMAIN eventListeners |-> i],
                         LAMBDA i : el(i) # Null)
    IN  [fired |-> [k \in DOMAIN idx |->
                       invoke(ver, eventListeners[idx[k]], el(idx[k]), act)],
         threw |-> Null]

\* One run of the native listener of an event name for an event at target.
actualEventListener(ver, eventListeners, target, act) ==
    selectorLoop(ver, eventListeners, target, act, 1)

\* removeEventListeners.  part_001 visits the stored event names; modelle.js
\* visits the indices of Object.keys ("0", "1", ...), for which nothing is
\* stored and nothing is listening.
removedListeners(ver, native, actual) ==
    [native |-> [n \in DOMAIN native |->
                    IF ver = "part_001" /\ n \in actual
                    THEN native[n] - 1 ELSE native[n]],
     actual |-> {}]

InitDispatch ==
    /\ FormInit
    /\ btnNative
    /\ canceled = 0
    /\ norm = NormIdle
    /\ \E v \in Versions, m \in ListenerMaps : CtlIdle(v, m)
    /\ LifeIdle(BaseHooks)

addEventListeners ==
    /\ listenerOps < MaxListenerOps
    /\ LET r == removedListeners(version, nativeListeners, actualEventListeners)
       IN  /\ nativeListeners' =
                 [n \in EventNames |->
                     IF n \in DOMAIN eventListenersMap
                     THEN r.native[n] + 1 ELSE r.native[n]]
           /\ actualEventListeners' = r.actual \cup DOMAIN eventListenersMap
    /\ listenerOps' = listenerOps + 1
    /\ lastOp' = "addEventListeners"
    /\ UNCHANGED <<formVars, canceled, norm, fetchCall, dataVars, lifeVars, version,
                   eventListenersMap, dispatches, dispatched>>

removeEventListeners ==
    /\ listenerOps < MaxListenerOps
    /\ LET r == removedListeners(version, nativeListeners, actualEventListeners)
       IN  /\ nativeListeners' = r.native
           /\ actualEventListeners' = r.actual
    /\ listenerOps' = listenerOps + 1
    /\ lastOp' = "removeEventListeners"
    /\ UNCHANGED <<formVars, canceled, norm, fetchCall, dataVars, lifeVars, version,
                   eventListenersMap, dispatches, dispatched>>

RECURSIVE Repeat(_, _)
Repeat(seq, n) == IF n = 0 THEN <<>> ELSE seq \o Repeat(seq, n - 1)

\* A native event of a type reaches the view root from a target inside the
\* view: every live listener of that type runs, an exception in one of them
\* not keeping the next from running.
dispatchEvent ==
    /\ dispatches < MaxDispatches
    /\ \E type \in EventNames, target \in Targets, act \in HandlerActs :
          LET r == actualEventListener(version, eventListenersMap[type],
                                       target, act)
              n == nativeListeners[type]
          IN  dispatched' =
                  [type |-> type,
                   target |-> target,
                   listeners |-> n,
                   fired |-> Repeat(r.fired, n),
                   threw |-> IF n > 0 THEN r.threw ELSE Null,
                   nativeStopped |->
                       n > 0 /\ \E i \in DOMAIN r.fired : r.fired[i].stopped]
    /\ dispatches' = dispatches + 1
    /\ UNCHANGED <<formVars, canceled, norm, fetchCall, dataVars, lifeVars, version,
                   eventListenersMap, nativeListeners, actualEventListeners,
                   listenerOps, lastOp>>

NextDispatch == addEventListeners \/ removeEventListeners \/ dispatchEvent

SpecDispatch == InitDispatch /\ [][NextDispatch]_vars

\* ----------------------------------------------------------------- events
\* The Events mixin (Backbone.Events, src/unnamed/part_001:19-265, the same
\* in src/modelle.js): on, listenTo, off, stopListening, trigger.  Event
\* maps, space-separated names and once are left out.  The module calls
\* _.keys and _.uniqueId but imports nothing (define([], ...)): without a
\* global _ these calls throw a ReferenceError.
ReferenceError == "ReferenceError"

\* onApi, lines 91-100, with the bookkeeping of internalOn, lines 56-66.
internalOn(b, o, name, callback, context, listening) ==
    LET handler == [callback |-> callback, context |-> context,
                    listening |-> listening]
    IN  [b EXCEPT
            !.hasEvents[o] = TRUE,
            !.events[o][name] = IF callback # Null THEN Append(@, handler)
                                ELSE @,
            !.listeningTo =
                IF listening # Null /\ callback # Null
                THEN [@ EXCEPT ![listening][o] = @ + 1] ELSE @,
            !.listeners[o] = IF listening # Null THEN @ \cup {listening}
                             ELSE @]

\* Events.listenTo, lines 72-88; _.uniqueId is reached on the first call
\* for an object.
listenToThrows(b) == ~b.underscore

listenTo(b, l, o, name, callback) ==
    IF listenToThrows(b) THEN b
    ELSE internalOn(IF b.listeningTo[l][o] = -1
                    THEN [b EXCEPT !.listeningTo[l][o] = 0] ELSE b,
                    o, name, callback, l, l)

\* The handlers offApi takes out, lines 165-171.
Removed(handler, callback, context) ==
    /\ callback = Null \/ callback = handler.callback
    /\ context = Null \/ context = handler.context

\* offApi, lines 137-189.
offApi(b, o, name, callback, context) ==
    IF name = Null /\ callback = Null /\ context = Null
    THEN [b EXCEPT
             !.listeners[o] = {},
             !.listeningTo =
                 [l \in Listeners |->
                     IF l \in b.listeners[o] THEN [@[l] EXCEPT ![o] = -1]
                     ELSE @[l]],
             !.hasEvents[o] = FALSE,
             !.events[o] = [n \in Names |-> <<>>]]
    ELSE LET names == IF name # Null THEN {name} ELSE Names
             gone(l) ==
                 Cardinality({<<n, j>> \in names \X (1..MaxBusOps) :
                     /\ j \in DOMAIN b.events[o][n]
                     /\ Removed(b.events[o][n][j], callback, context)
                     /\ b.events[o][n][j].listening = l})
             dropped == {l \in Listeners :
                            gone(l) > 0 /\ gone(l) >= b.listeningTo[l][o]}
         IN  [b EXCEPT
                 !.events[o] =
                     [n \in Names |->
                         IF n \in names
                         THEN SelectSeq(@[n],
                                  LAMBDA h : ~Removed(h, callback, context))
                         ELSE @[n]],
                 !.listeners[o] = @ \ dropped,
                 !.listeningTo =
                     [l \in Listeners |->
                         IF l \in dropped THEN [@[l] EXCEPT ![o] = -1]
                         ELSE [@[l] EXCEPT ![o] = @ - gone(l)]]]

\* Events.off, lines 106-113; _.keys is reached when no name is given.
offThrows(b, o, name) == b.hasEvents[o] /\ name = Null /\ ~b.underscore

off(b, o, name, callback, context) ==
    IF ~b.hasEvents[o] \/ offThrows(b, o, name) THEN b
    ELSE offApi(b, o, name, callback, context)

\* Events.stopListening, lines 117-134: the loop over the ids, from the
\* i-th object on; ids are the objects listened to when the call started.
ObjOrder == <<"a", "b">>

\* The loop with off called without the listener as context.
RECURSIVE stopLoop_DropsContext(_, _, _)
stopLoop_DropsContext(b, l, ids) ==
    IF ids = <<>> THEN b
    ELSE IF b.listeningTo[l][Head(ids)] = -1 THEN b
    ELSE stopLoop_DropsContext(off(b, Head(ids), Null, Null, Null), l,
                               Tail(ids))

RECURSIVE stopLoop(_, _, _)
stopLoop(b, l, ids) ==
    IF ids = <<>> THEN b
    ELSE IF b.listeningTo[l][Head(ids)] = -1 THEN b      \* break
    ELSE stopLoop(off(b, Head(ids), Null, Null, l), l, Tail(ids))

listeningIds(b, l, obj) ==
    IF obj # Null THEN <<obj>>
    ELSE SelectSeq(ObjOrder, LAMBDA o : b.listeningTo[l][o] # -1)

\* _.keys(listeningTo), line 121, is reached when the listener has a
\* _listeningTo and no object is given.
stopListeningThrows(b, l, obj) ==
    /\ obj = Null
    /\ ~b.underscore
    /\ \E o \in Objs : b.listeningTo[l][o] # -1

stopListening(b, l, obj) ==
    IF stopListeningThrows(b, l, obj) THEN b
    ELSE stopLoop(b, l, listeningIds(b, l, obj))

\* What a callback does when it is called for an event name of o: h binds
\* f to 'all', u unbinds every callback of the name, f and g do nothing.
callbackEffect(b, o, name, callback) ==
    CASE callback = "h" -> internalOn(b, o, "all", "f", Null, Null)
      [] callback = "u" -> off(b, o, name, Null, Null)
      [] OTHER -> b

\* triggerEvents, lines 250-261: the handlers of the array are called in
\* order; r is [bus, calls].
RECURSIVE triggerEvents(_, _, _, _, _)
triggerEvents(r, o, name, events, as) ==
    IF events = <<>> THEN r
    ELSE LET ev == Head(events)
             called == [callback |-> ev.callback,
                        ctx |-> IF ev.context # Null THEN ev.context ELSE o,
                        listening |-> ev.listening,
                        as |-> as]
         IN  triggerEvents(
                 [bus |-> callbackEffect(r.bus, o, name, ev.callback),
                  calls |-> Append(r.calls, called)],
                 o, name, Tail(events), as)

\* triggerApi that reads objEvents.all after the callbacks of the name.
triggerApi_ReadsAllLate(b, o, name) ==
    LET named == triggerEvents([bus |-> b, calls |-> <<>>], o, name,
                               b.events[o][name], "name")
    IN  triggerEvents(named, o, name, named.bus.events[o]["all"], "all")

\* triggerApi, lines 239-248, under the guard of Events.trigger, 227.
triggerApi(b, o, name) ==
    LET events == b.events[o][name]
        allEvents == b.events[o]["all"]
        named == triggerEvents([bus |-> b, calls |-> <<>>], o, name,
                               events, "name")
    IN  triggerEvents(named, o, name, allEvents, "all")

trigger(b, o, name) ==
    IF ~b.hasEvents[o] THEN [bus |-> b, calls |-> <<>>]
    ELSE triggerApi(b, o, name)

\* ------------------------------------------------------------- lifecycle
\* viewElementRemovedObserver (src/unnamed/part_001): one MutationObserver
\* on document.body calls Controller.onViewRemovedFromDOM for the views at
\* and below every removed node.  The observer callback is an async
\* function: each action below is one of its synchronous segments.

\* body > n1 > v1 > v2 and body > v3; v1, v2, v3 are the view elements.
DomParent == [n1 |-> "body", v1 |-> "n1", v2 |-> "v1", v3 |-> "body"]
DomNodes == DOMAIN DomParent
DocOrder == <<"n1", "v1", "v2", "v3">>

\* A node is in the document when no link up to body is cut.
RECURSIVE InDocument(_, _)
InDocument(n, det) ==
    IF n = "body" THEN TRUE
    ELSE n \notin det /\ InDocument(DomParent[n], det)

\* m is below n through links that are not cut.
RECURSIVE Below(_, _, _)
Below(m, n, det) ==
    IF m \notin DomNodes \/ m \in det THEN FALSE
    ELSE IF DomParent[m] = n THEN TRUE
    ELSE Below(DomParent[m], n, det)

\* querySelectorAll that counts the node itself among its descendants.
querySelectorAll_WithSelf(n, det) ==
    SelectSeq(DocOrder, LAMBDA m : m = n \/ Below(m, n, det))

\* node.querySelectorAll('*'), in document order.
querySelectorAll(n, det) == SelectSeq(DocOrder, LAMBDA m : Below(m, n, det))

\* The part of the state a hook can change.
LifeState ==
    [controller |-> controller, hookLog |-> hookLog, cleanupLog |-> cleanupLog,
     bus |-> bus]

\* The controller as a listener of the Events mixin (line 639): the one of
\* v3 is the listener l1, the others never call listenTo.
ListenerOf(v) == IF v = "v3" THEN "l1" ELSE Null

\* cleanup() without the delete of el._modelleController.
cleanupView_KeepsController(st, v, from) ==
    [st EXCEPT !.bus = IF ListenerOf(v) = Null THEN @
                       ELSE stopListening(@, ListenerOf(v), Null),
               !.cleanupLog = Append(@, [view |-> v, from |-> from,
                                         ops |-> st.bus.ops,
                                         threw |-> Null])]

\* Controller.cleanup(): stopListening() and delete el._modelleController;
\* an exception of stopListening leaves the controller on its element.
\* The log keeps the number of Events calls made before the cleanup.
cleanupView(st, v, from) ==
    LET l == ListenerOf(v)
        threw == l # Null /\ stopListeningThrows(st.bus, l, Null)
        entry == [view |-> v, from |-> from, ops |-> st.bus.ops,
                  threw |-> IF threw THEN ReferenceError ELSE Null]
    IN  IF threw THEN [st EXCEPT !.cleanupLog = Append(@, entry)]
        ELSE [st EXCEPT !.bus = IF l = Null THEN @
                                ELSE stopListening(@, l, Null),
                        !.controller = @ \ {v},
                        !.cleanupLog = Append(@, entry)]

\* onViewRemovedFromDOM that calls cleanup() in the base class.
onViewRemovedFromDOM_Cleans(st, v) ==
    cleanupView([st EXCEPT !.hookLog = Append(@, v)], v, "onViewRemovedFromDOM")

\* controller.onViewRemovedFromDOM(): empty in the base class; a subclass
\* may override it to call cleanup().
onViewRemovedFromDOM(st, v) ==
    LET called == [st EXCEPT !.hookLog = Append(@, v)]
    IN  IF hookCallsCleanup[v]
        THEN cleanupView(called, v, "onViewRemovedFromDOM")
        ELSE called

\* The loop over the descendants of a removed node.
RECURSIVE descendantHooks(_, _)
descendantHooks(st, els) ==
    IF els = <<>> THEN st
    ELSE descendantHooks(IF Head(els) \in st.controller
                         THEN onViewRemovedFromDOM(st, Head(els)) ELSE st,
                         Tail(els))

SetLife(st) ==
    /\ controller' = st.controller
    /\ hookLog' = st.hookLog
    /\ cleanupLog' = st.cleanupLog
    /\ bus' = st.bus

InitLifecycle ==
    /\ FormInit
    /\ btnNative
    /\ canceled = 0
    /\ norm = NormIdle
    /\ CtlIdle("part_001", FormListeners)
    /\ \E h \in [Views -> BOOLEAN] : LifeIdle(h)

\* parent.removeChild(n) for a node in the document: one mutation record.
removeChild(n) ==
    /\ domOps < MaxDomOps
    /\ InDocument(n, detached)
    /\ detached' = detached \cup {n}
    /\ mutations' = Append(mutations, n)
    /\ domOps' = domOps + 1
    /\ UNCHANGED <<formVars, canceled, norm, fetchCall, dataVars, ctlVars, onDom, controller,
                   hookCallsCleanup, runs, hookLog, cleanupLog>>

\* parent.appendChild(n) for a node that was removed.
appendChild(n) ==
    /\ domOps < MaxDomOps
    /\ n \in detached
    /\ detached' = detached \ {n}
    /\ domOps' = domOps + 1
    /\ UNCHANGED <<formVars, canceled, norm, fetchCall, dataVars, ctlVars, onDom, controller,
                   hookCallsCleanup, mutations, runs, hookLog, cleanupLog>>

\* controller.cleanup() called by the application.
cleanup(v) ==
    /\ Cardinality({i \in DOMAIN cleanupLog : cleanupLog[i].from = "call"})
           < MaxCleanupCalls
    /\ SetLife(cleanupView(LifeState, v, "call"))
    /\ UNCHANGED <<formVars, canceled, norm, fetchCall, collection, ctlVars, onDom, detached,
                   hookCallsCleanup, mutations, runs, domOps>>

\* The observer callback starts with the pending records and runs up to
\* its first await: the hooks of the views below the first removed node.
viewElementRemovedObserver ==
    /\ mutations # <<>>
    /\ SetLife(descendantHooks(LifeState,
                               querySelectorAll(mutations[1], detached)))
    /\ runs' = Append(runs, [nodes |-> mutations, idx |-> 1,
                             phase |-> "awaitAll"])
    /\ mutations' = <<>>
    /\ UNCHANGED <<formVars, canceled, norm, fetchCall, collection, ctlVars, onDom, detached,
                   hookCallsCleanup, domOps>>

\* The callback goes on to the next removed node, or ends.
nextNode(r, st) ==
    LET run == runs[r]
    IN  IF run.idx = Len(run.nodes)
        THEN /\ SetLife(st)
             /\ runs' = [runs EXCEPT ![r].phase = "done"]
        ELSE /\ SetLife(descendantHooks(st,
                     querySelectorAll(run.nodes[run.idx + 1], detached)))
             /\ runs' = [runs EXCEPT ![r].idx = @ + 1,
                                     ![r].phase = "awaitAll"]

\* After await Promise.all(promises): the hook of the removed node itself.
resumeAll(r) ==
    /\ runs[r].phase = "awaitAll"
    /\ LET node == runs[r].nodes[runs[r].idx]
       IN  IF node \in controller
           THEN /\ SetLife(onViewRemovedFromDOM(LifeState, node))
                /\ runs' = [runs EXCEPT ![r].phase = "awaitOwn"]
           ELSE nextNode(r, LifeState)
    /\ UNCHANGED <<formVars, canceled, norm, fetchCall, collection, ctlVars, onDom, detached,
                   hookCallsCleanup, mutations, domOps>>

\* After await node._modelleController.onViewRemovedFromDOM().
resumeOwn(r) ==
    /\ runs[r].phase = "awaitOwn"
    /\ nextNode(r, LifeState)
    /\ UNCHANGED <<formVars, canceled, norm, fetchCall, collection, ctlVars, onDom, detached,
                   hookCallsCleanup, mutations, domOps>>

NextLifecycle ==
    \/ \E n \in DomNodes : removeChild(n)
    \/ \E n \in DomNodes : appendChild(n)
    \/ \E v \in Views : cleanup(v)
    \/ viewElementRemovedObserver
    \/ \E r \in DOMAIN runs : resumeAll(r)
    \/ \E r \in DOMAIN runs : resumeOwn(r)

SpecLifecycle == InitLifecycle /\ [][NextLifecycle]_vars

\* -------------------------------------------------------------- destroy
\* One Controller of src/unnamed/part_001 seen from both sides: its element
\* is the dispatcher's view root and the node v3 of the document.
\* setViewElement attaches the listeners (line 696); cleanup() (739-743)
\* calls stopListening() and deletes the element's reference, and leaves
\* actualEventListeners and the element's native listeners alone.
ViewNode == "v3"

\* What getEventListeners returns for it: a delegated and a root handler.
DestroyListeners == [click |-> <<".a", "">>, keyup |-> <<".a">>]

InitDestroy ==
    /\ FormInit
    /\ btnNative
    /\ canceled = 0
    /\ norm = NormIdle
    /\ CtlIdle("part_001", DestroyListeners)
    /\ \E h \in {BaseHooks, [BaseHooks EXCEPT ![ViewNode] = TRUE]} : LifeIdle(h)

\* setViewElement(element): stores the controller in the element and
\* attaches the listeners.
setViewElement ==
    /\ ViewNode \in controller
    /\ addEventListeners

NextDestroy ==
    \/ setViewElement
    \/ dispatchEvent
    \/ cleanup(ViewNode)
    \/ removeChild(ViewNode)
    \/ appendChild(ViewNode)
    \/ viewElementRemovedObserver
    \/ \E r \in DOMAIN runs : resumeAll(r)
    \/ \E r \in DOMAIN runs : resumeOwn(r)

SpecDestroy == InitDestroy /\ [][NextDestroy]_vars

\* ----------------------------------------------------------------- on DOM
\* Running a function once its element is in the document:
\* Controller.runWhenViewOnDOM with idleUntilOnDOM (src/unnamed/part_001),
\* and Controller.init with idleTillAddedToDOM (src/modelle.js).  The DOM is
\* the one of the lifecycle section; any node may start out removed.

\* A timer is set for a function waiting for element e.
Waiting(e) == [NoWaiter EXCEPT !.pc = "timer", !.element = e]

InitOnDOM ==
    /\ FormInit
    /\ btnNative
    /\ canceled = 0
    /\ norm = NormIdle
    /\ \E v \in Versions : CtlIdle(v, FormListeners)
    /\ detached \in SUBSET DomNodes
    /\ controller = Views
    /\ hookCallsCleanup = BaseHooks
    /\ mutations = <<>>
    /\ runs = <<>>
    /\ hookLog = <<>>
    /\ cleanupLog = <<>>
    /\ domOps = 0
    /\ \E e \in Views : onDom = Waiting(e)
    /\ fetchCall = NoFetch
    /\ DataIdle

\* The observer callback of idleUntilOnDOM / idleTillAddedToDOM: whether
\* it resolves for these added nodes.  Only part_001 looks at the
\* descendants of an added node.
addedNodesHit(ver, nodes, e, det) ==
    \E i \in DOMAIN nodes :
        \/ nodes[i] = e
        \/ /\ ver = "part_001"
           /\ \E k \in DOMAIN querySelectorAll(nodes[i], det) :
                 querySelectorAll(nodes[i], det)[k] = e

\* The timer fires: the element is in the document and the function runs,
\* or a MutationObserver on document.body is created.
idleUntilOnDOM ==
    /\ onDom.pc = "timer"
    /\ onDom' = IF InDocument(onDom.element, detached)
                THEN [onDom EXCEPT !.pc = "ran", !.ran = @ + 1]
                ELSE [onDom EXCEPT !.pc = "observing"]
    /\ UNCHANGED <<formVars, canceled, norm, fetchCall, dataVars, ctlVars, detached, controller,
                   hookCallsCleanup, mutations, runs, hookLog, cleanupLog,
                   domOps>>

\* A removed node is put back under its parent; the observer gets a record
\* when that is in the document.
insertNode(n) ==
    /\ onDom.moves < MaxMoves
    /\ n \in detached
    /\ detached' = detached \ {n}
    /\ onDom' = [onDom EXCEPT
            !.moves = @ + 1,
            !.pending = IF /\ onDom.pc = "observing"
                           /\ InDocument(DomParent[n], detached)
                        THEN Append(@, n) ELSE @]
    /\ UNCHANGED <<formVars, canceled, norm, fetchCall, dataVars, ctlVars, controller,
                   hookCallsCleanup, mutations, runs, hookLog, cleanupLog,
                   domOps>>

\* A node is removed from its parent.
removeNode(n) ==
    /\ onDom.moves < MaxMoves
    /\ n \notin detached
    /\ detached' = detached \cup {n}
    /\ onDom' = [onDom EXCEPT !.moves = @ + 1]
    /\ UNCHANGED <<formVars, canceled, norm, fetchCall, dataVars, ctlVars, controller,
                   hookCallsCleanup, mutations, runs, hookLog, cleanupLog,
                   domOps>>

\* The observer callback gets the pending records; when it resolves, the
\* observer is disconnected and the function runs.
addedObserver ==
    /\ onDom.pc = "observing"
    /\ onDom.pending # <<>>
    /\ onDom' = IF addedNodesHit(version, onDom.pending, onDom.element,
                                 detached)
                THEN [onDom EXCEPT !.pc = "ran", !.ran = @ + 1,
                                   !.pending = <<>>]
                ELSE [onDom EXCEPT !.pending = <<>>]
    /\ UNCHANGED <<formVars, canceled, norm, fetchCall, dataVars, ctlVars, detached, controller,
                   hookCallsCleanup, mutations, runs, hookLog, cleanupLog,
                   domOps>>

NextOnDOM ==
    \/ idleUntilOnDOM
    \/ \E n \in DomNodes : insertNode(n)
    \/ \E n \in DomNodes : removeNode(n)
    \/ addedObserver

SpecOnDOM == InitOnDOM /\ [][NextOnDOM]_vars

\* ----------------------------------------------------------------- fetch2
\* fetch2(url, options), the wrapper over the platform's fetch() (the same in
\* src/unnamed/part_001 and src/modelle.js).

\* A response: its status, its Content-Type header (null when it has
\* none) and whether its body is valid JSON.
Responses ==
    [status : {200, 404, 500},
     contentType : {"application/json; charset=utf-8", "text/html", Null},
     validJson : BOOLEAN]

\* response.ok
ok(response) == response.status \in 200..299

\* What the platform's fetch() rejects with, and whether that is a network
\* failure.  A network failure is a TypeError whose message depends on the
\* browser; a TypeError is also what a malformed request gives.
PlatformErrors ==
    { [name |-> TypeError, message |-> "Failed to fetch", network |-> TRUE],
      [name |-> TypeError,
       message |-> "NetworkError when attempting to fetch resource.",
       network |-> TRUE],
      [name |-> TypeError, message |-> "Invalid URL", network |-> FALSE],
      [name |-> "AbortError", message |-> "The user aborted a request.",
       network |-> FALSE] }

NetOutcomes ==
    {[kind |-> "rejects", error |-> e] : e \in PlatformErrors}
    \cup {[kind |-> "response", response |-> r] : r \in Responses}

\* The options of a call, with the defaults where they are left out.
FetchOptions ==
    [acceptableStatusCodes : SUBSET {404, 500}, parseResponse : BOOLEAN]

Throws(e) == [kind |-> "throws", error |-> e]
Returns(v) == [kind |-> "returns", value |-> v]
Pending == [kind |-> "pending"]

InitFetch ==
    /\ FormInit
    /\ btnNative
    /\ canceled = 0
    /\ norm = NormIdle
    /\ CtlIdle("part_001", FormListeners)
    /\ detached = {}
    /\ controller = Views
    /\ hookCallsCleanup = BaseHooks
    /\ mutations = <<>>
    /\ runs = <<>>
    /\ hookLog = <<>>
    /\ cleanupLog = <<>>
    /\ domOps = 0
    /\ onDom = NoWaiter
    /\ DataIdle
    /\ \E n \in NetOutcomes, o \in FetchOptions :
          fetchCall = [pc |-> "fetch", net |-> n, options |-> o,
                       parse |-> Null, result |-> Pending]

\* fetch2 from `await fetch(url, options)` on, up to the next await or the
\* end: the result, or the parser to await.
afterFetch(net, options) ==
    IF net.kind = "rejects"
    THEN IF net.error.name = TypeError /\ net.error.message = "Failed to fetch"
         THEN [parse |-> Null, result |-> Throws([name |-> FetchError])]
         ELSE [parse |-> Null, result |-> Throws(net.error)]
    ELSE LET response == net.response
         IN  IF ok(response)
                \/ response.status \in options.acceptableStatusCodes
             THEN IF ~options.parseResponse
                  THEN [parse |-> Null,
                        result |-> Returns([parsed |-> "no",
                                            response |-> response])]
                  ELSE IF response.contentType = Null
                  THEN [parse |-> Null,
                        result |-> Throws([name |-> TypeError,
                                           message |-> "contentType is null"])]
                  ELSE IF response.contentType
                              = "application/json; charset=utf-8"
                  THEN [parse |-> "json", result |-> Pending]
                  ELSE [parse |-> "text", result |-> Pending]
             ELSE [parse |-> Null,
                   result |-> Throws([name |-> HttpError,
                                      response |-> response])]

\* fetch2 after `await response.json()` or `await response.text()`.
afterParse(response, parse) ==
    IF parse = "json" /\ ~response.validJson
    THEN Throws([name |-> SyntaxError])
    ELSE Returns([parsed |-> parse, response |-> response])

\* The platform's fetch() settles.
fetchSettles ==
    /\ fetchCall.pc = "fetch"
    /\ LET r == afterFetch(fetchCall.net, fetchCall.options)
       IN  fetchCall' = [fetchCall EXCEPT
               !.pc = IF r.parse = Null THEN "settled" ELSE "parse",
               !.parse = r.parse,
               !.result = r.result]
    /\ UNCHANGED <<formVars, canceled, norm, ctlVars, lifeVars, dataVars>>

\* The body is parsed.
parseSettles ==
    /\ fetchCall.pc = "parse"
    /\ fetchCall' = [fetchCall EXCEPT
           !.pc = "settled",
           !.result = afterParse(fetchCall.net.response, fetchCall.parse)]
    /\ UNCHANGED <<formVars, canceled, norm, ctlVars, lifeVars, dataVars>>

NextFetch == fetchSettles \/ parseSettles

SpecFetch == InitFetch /\ [][NextFetch]_vars

\* ------------------------------------------------------------ collection
\* Collection.fetch and Collection._fetch (src/unnamed/part_001:446-544,
\* the same in src/modelle.js:439-520).  With useCache the real fetch runs
\* from a timer while fetch() itself pushes the items of the cached value.
\* createItem is the subclass's async function: each call settles when it
\* settles, so each action below is one segment between two awaits.

\* The item attributes the cache or the server may hold.
CachedValues == {<<>>, <<"c1">>, <<"c1", "c2">>}
ResponseValues == {<<>>, <<"s1">>, <<"s1", "s2">>}

\* createItem(itemAttributes), called by the loop of fetch ("cache") or of
\* _fetch ("server").
createItem(itemAttributes, loop) == [attributes |-> itemAttributes, by |-> loop]

\* JSON.stringify(this): the attributes of the items, in order.
stringify(items) == [i \in DOMAIN items |-> items[i].attributes]

InitCollection ==
    /\ FormInit
    /\ btnNative
    /\ canceled = 0
    /\ norm = NormIdle
    /\ CtlIdle("part_001", FormListeners)
    /\ detached = {}
    /\ controller = Views
    /\ hookCallsCleanup = BaseHooks
    /\ mutations = <<>>
    /\ runs = <<>>
    /\ hookLog = <<>>
    /\ cleanupLog = <<>>
    /\ domOps = 0
    /\ onDom = NoWaiter
    /\ fetchCall = NoFetch
    /\ bus = NoBus(TRUE)
    /\ \E useCache \in BOOLEAN, c \in CachedValues, r \in ResponseValues,
          o \in {"ok", FetchError} :
          collection = [pc |-> "called",
                        useCache |-> useCache,
                        cache |-> c,
                        response |-> r,
                        outcome |-> o,
                        items |-> <<>>,
                        fetch |-> "url",
                        parsedValue |-> <<>>,
                        cachedIdx |-> 0,
                        _fetch |-> "idle",
                        idx |-> 0,
                        timer |-> FALSE,
                        triggered |-> <<>>]

CollectionFrame ==
    UNCHANGED <<formVars, canceled, norm, ctlVars, lifeVars, fetchCall, bus>>

\* _fetch(url, options) is called: it runs up to `await fetch2(...)`.
call_fetch(c) == [c EXCEPT !._fetch = "fetch2"]

\* fetch(), after `await this.getUrl()`: lines 454-476, then the timer and
\* the read of the cache, or the call of _fetch.
fetchUrl ==
    /\ collection.pc = "called"
    /\ collection.fetch = "url"
    /\ collection' =
          IF collection.useCache
          THEN [collection EXCEPT !.timer = TRUE, !.fetch = "readCachedValue"]
          ELSE [call_fetch(collection) EXCEPT !.fetch = "_fetch"]
    /\ CollectionFrame

\* The timer of line 479 fires: a task, so not before the await of the
\* cached value (a string of localStorage) has resumed.
timerFires ==
    /\ collection.pc = "called"
    /\ collection.timer
    /\ collection.fetch # "readCachedValue"
    /\ collection' = [call_fetch(collection) EXCEPT !.timer = FALSE]
    /\ CollectionFrame

\* fetch(), after `await this._readCachedValue(...)`: JSON.parse, and the
\* first createItem call if the value is a non-empty array.
fetchCachedValue ==
    /\ collection.pc = "called"
    /\ collection.fetch = "readCachedValue"
    /\ collection' =
          [collection EXCEPT
              !.parsedValue = collection.cache,
              !.cachedIdx = IF collection.cache = <<>> THEN 0 ELSE 1,
              !.fetch = IF collection.cache = <<>> THEN "returned"
                        ELSE "createItem"]
    /\ CollectionFrame

\* fetch(), after `await this.createItem(itemAttributes)`: push, and the
\* next createItem call or the end.
fetchPush ==
    /\ collection.pc = "called"
    /\ collection.fetch = "createItem"
    /\ LET i == collection.cachedIdx
           last == i = Len(collection.parsedValue)
       IN  collection' =
             [collection EXCEPT
                 !.items = Append(@, createItem(collection.parsedValue[i],
                                                "cache")),
                 !.cachedIdx = IF last THEN i ELSE i + 1,
                 !.fetch = IF last THEN "returned" ELSE "createItem"]
    /\ CollectionFrame

\* _fetch, lines 524-543 after its loop: with useCache read the cache and
\* rewrite it if it differs (two awaits on plain values), then trigger.
after_fetchLoop(c) ==
    IF c.useCache
    THEN [c EXCEPT !._fetch = "readCachedValue"]
    ELSE [c EXCEPT !._fetch = "done",
                   !.triggered = Append(@, "changed"),
                   !.fetch = IF @ = "_fetch" THEN "returned" ELSE @]

\* _fetch, after `await fetch2(...)`: a rejection ends it; else splice(0),
\* and the first createItem call.
_fetchResponse ==
    /\ collection.pc = "called"
    /\ collection._fetch = "fetch2"
    /\ collection' =
          IF collection.outcome # "ok"
          THEN [collection EXCEPT
                   !._fetch = "threw",
                   !.fetch = IF @ = "_fetch" THEN "threw" ELSE @]
          ELSE IF collection.response = <<>>
          THEN after_fetchLoop([collection EXCEPT !.items = <<>>])
          ELSE [collection EXCEPT !.items = <<>>, !.idx = 1,
                                  !._fetch = "createItem"]
    /\ CollectionFrame

\* _fetch, after `await this.createItem(itemAttributes)`.
_fetchPush ==
    /\ collection.pc = "called"
    /\ collection._fetch = "createItem"
    /\ LET i == collection.idx
           pushed == [collection EXCEPT
                         !.items = Append(@, createItem(collection.response[i],
                                                        "server"))]
       IN  collection' =
             IF i = Len(collection.response)
             THEN after_fetchLoop(pushed)
             ELSE [pushed EXCEPT !.idx = i + 1]
    /\ CollectionFrame

\* _fetch, after `await this._readCachedValue(urlString)`: lines 528-540.
_fetchCache ==
    /\ collection.pc = "called"
    /\ collection._fetch = "readCachedValue"
    /\ LET jsonStringForCache == stringify(collection.items)
           cacheUpdated == collection.cache # jsonStringForCache
       IN  collection' =
             [collection EXCEPT
                 !.cache = jsonStringForCache,
                 !.triggered = IF cacheUpdated THEN Append(@, "changed") ELSE @,
                 !._fetch = "done"]
    /\ CollectionFrame

NextCollection ==
    \/ fetchUrl
    \/ timerFires
    \/ fetchCachedValue
    \/ fetchPush
    \/ _fetchResponse
    \/ _fetchPush
    \/ _fetchCache

SpecCollection == InitCollection /\ [][NextCollection]_vars

\* ----------------------------------------------------------- events calls
\* One action per call of a method of the Events mixin.
InitEvents ==
    /\ FormInit
    /\ btnNative
    /\ canceled = 0
    /\ norm = NormIdle
    /\ CtlIdle("part_001", FormListeners)
    /\ detached = {}
    /\ controller = Views
    /\ hookCallsCleanup = BaseHooks
    /\ mutations = <<>>
    /\ runs = <<>>
    /\ hookLog = <<>>
    /\ cleanupLog = <<>>
    /\ domOps = 0
    /\ onDom = NoWaiter
    /\ fetchCall = NoFetch
    /\ collection = NoCollection
    /\ \E u \in BOOLEAN : bus = NoBus(u)

EventsFrame ==
    UNCHANGED <<formVars, canceled, norm, ctlVars, lifeVars, fetchCall,
                collection>>

\* The bus after a call: the call is counted and recorded; calls are the
\* callbacks a trigger called, or the objects stopListening went through.
Called(b, op, o, name, callback, context, calls, threw) ==
    [b EXCEPT !.ops = bus.ops + 1,
              !.last = [op |-> op, obj |-> o, name |-> name,
                        callback |-> callback, context |-> context,
                        calls |-> calls, threw |-> threw]]

\* o.on(name, callback, context), for one of the given bindings.
callOn(bindings) ==
    /\ bus.ops < MaxBusOps
    /\ \E c \in bindings :
          bus' = Called(internalOn(bus, c.obj, c.name, c.callback, c.context,
                                   Null),
                        "on", c.obj, c.name, c.callback, c.context, <<>>, Null)
    /\ EventsFrame

\* l.listenTo(o, name, callback); the listener is the binding's context.
callListenTo(bindings) ==
    /\ bus.ops < MaxBusOps
    /\ \E c \in bindings :
          bus' = Called(listenTo(bus, c.context, c.obj, c.name, c.callback),
                        "listenTo", c.obj, c.name, c.callback, c.context,
                        <<>>,
                        IF listenToThrows(bus) THEN ReferenceError ELSE Null)
    /\ EventsFrame

\* o.off(name, callback, context), each argument given or not.
callOff(bindings) ==
    /\ bus.ops < MaxBusOps
    /\ \E c \in bindings :
          bus' = Called(off(bus, c.obj, c.name, c.callback, c.context),
                        "off", c.obj, c.name, c.callback, c.context, <<>>,
                        IF offThrows(bus, c.obj, c.name) THEN ReferenceError
                        ELSE Null)
    /\ EventsFrame

\* l.stopListening() or l.stopListening(o)
callStopListening(ls, os) ==
    /\ bus.ops < MaxBusOps
    /\ \E l \in ls, o \in os :
          bus' = Called(stopListening(bus, l, o),
                        "stopListening", o, Null, Null, l,
                        listeningIds(bus, l, o),
                        IF stopListeningThrows(bus, l, o) THEN ReferenceError
                        ELSE Null)
    /\ EventsFrame

\* o.trigger(name)
callTrigger(os, ns) ==
    /\ bus.ops < MaxBusOps
    /\ \E o \in os, name \in ns :
          LET r == trigger(bus, o, name)
          IN  bus' = Called(r.bus, "trigger", o, name, Null, Null,
                            r.calls, Null)
    /\ EventsFrame

Binding(o, name, callback, context) ==
    [obj |-> o, name |-> name, callback |-> callback, context |-> context]

\* One object: callbacks f and g on every name, with or without a
\* context; h and u on x; off with every combination of arguments given
\* or not.
OnCalls ==
    {Binding("a", n, "f", x) : n \in Names, x \in {Null, "l1"}}
        \cup {Binding("a", n, "g", Null) : n \in Names}
        \cup {Binding("a", "x", "h", Null), Binding("a", "x", "u", Null)}

OffCalls ==
    {Binding("a", n, c, x) :
        n \in {Null, "x"}, c \in {Null, "f"}, x \in {Null, "l1"}}

NextEvents ==
    \/ callOn(OnCalls)
    \/ callOff(OffCalls)
    \/ callTrigger({"a"}, Names)

SpecEvents == InitEvents /\ [][NextEvents]_vars

\* Two objects and two listeners: listenTo for x, a handler the object
\* binds itself, stopListening with and without an object.
ListenCalls == {Binding(o, "x", "f", l) : o \in Objs, l \in Listeners}

OwnCalls == {Binding("a", "x", "g", x) : x \in {Null, "l1"}}

NextListen ==
    \/ callListenTo(ListenCalls)
    \/ callOn(OwnCalls)
    \/ callOff({Binding("a", n, Null, Null) : n \in {Null, "x"}})
    \/ callStopListening(Listeners, {Null})
    \/ callStopListening({"l1"}, {"a"})
    \/ callTrigger(Objs, {"x"})

SpecListen == InitEvents /\ [][NextListen]_vars

\* --------------------------------------------------------------- cleanup
\* Controller.cleanup() of the view v3, whose controller listens to the
\* objects a and b (listenTo), with removals and re-insertions of its
\* element and the observer callbacks.
CleanupListens == {Binding(o, "x", "f", ListenerOf(ViewNode)) : o \in Objs}

InitCleanup ==
    /\ FormInit
    /\ btnNative
    /\ canceled = 0
    /\ norm = NormIdle
    /\ CtlIdle("part_001", FormListeners)
    /\ detached = {}
    /\ controller = Views
    /\ hookCallsCleanup \in {BaseHooks, [BaseHooks EXCEPT ![ViewNode] = TRUE]}
    /\ mutations = <<>>
    /\ runs = <<>>
    /\ hookLog = <<>>
    /\ cleanupLog = <<>>
    /\ domOps = 0
    /\ onDom = NoWaiter
    /\ fetchCall = NoFetch
    /\ collection = NoCollection
    /\ \E u \in BOOLEAN : bus = NoBus(u)

NextCleanup ==
    \/ callListenTo(CleanupListens)
    \/ callOn({Binding("a", "x", "g", Null)})
    \/ callTrigger({"a"}, {"x"})
    \/ removeChild(ViewNode)
    \/ appendChild(ViewNode)
    \/ cleanup(ViewNode)
    \/ viewElementRemovedObserver
    \/ \E r \in DOMAIN runs : resumeAll(r)
    \/ \E r \in DOMAIN runs : resumeOwn(r)

SpecCleanup == InitCleanup /\ [][NextCleanup]_vars

\* ----------------------------------------------------------------- claims

Count(calls, op) == Cardinality({i \in DOMAIN calls : calls[i].op = op})
Where(calls, op) == {i \in DOMAIN calls : calls[i].op = op}
Args(calls, op) == {calls[i].arg : i \in Where(calls, op)}
Before(calls, op1, op2) ==
    \A i \in Where(calls, op1), j \in Where(calls, op2) : i < j

\* An element is not interactive: disabled by its property or by its hook.
Off(dis, hk, e) == dis[e] \/ (e \in DOMAIN hk /\ hk[e])

\* The submit() calls suspended at an await.
InFlight == {s \in Sessions : sess[s].pc \notin {"idle", "done", "threw"}}

\* C1: a submission whose model.validate() raised a ValidationError never
\* calls saveModel.
C1_NoSaveAfterValidationError ==
    \A s \in Sessions :
        sess[s].raised = ValidationError => Count(sess[s].calls, "saveModel") = 0

C1_Witness ==
    \E s \in Sessions :
        /\ sess[s].raised = ValidationError
        /\ sess[s].error = ValidationError
        /\ sess[s].pc = "done"

\* C2: when a submission ends, every input it disabled at its start and the
\* submit button are enabled again.
C2_EndsReenabled ==
    [][\A s \in Sessions :
          (sess[s].pc # "done" /\ sess'[s].pc = "done") =>
              \A e \in sess[s].didDisable : ~Off(disabled', hooked', e)]_vars

\* C3: the cleanup (removeLoadingSpinner, enableAllInputs) has run exactly
\* once for every submit() call that has ended, however it ended.
C3_CleanupAlwaysRuns ==
    \A s \in Sessions :
        sess[s].pc \in {"done", "threw"} =>
            /\ Count(sess[s].calls, "removeLoadingSpinner") = 1
            /\ Count(sess[s].calls, "enableAllInputs") = 1

\* C4: when saveModel rejects with E, the submission ends with onSubmitError
\* called exactly once, with E, onSubmitted not called, the loading
\* indicator removed and the inputs it disabled enabled again.
C4_SaveFailure ==
    [][\A s \in Sessions :
          (sess[s].pc = "saveModel" /\ sess'[s].pc = "done"
              /\ sess'[s].saveError = SaveError) =>
              /\ Count(sess'[s].calls, "onSubmitError") = 1
              /\ Args(sess'[s].calls, "onSubmitError") = {SaveError}
              /\ Count(sess'[s].calls, "onSubmitted") = 0
              /\ ~spinner'
              /\ \A e \in sess[s].didDisable : ~Off(disabled', hooked', e)]_vars

\* C5: an error of the read or of the validation that is not a
\* ValidationError is passed unchanged to onSubmitError, once, and saveModel
\* is not called.
C5_UnexpectedErrorForwarded ==
    \A s \in Sessions :
        sess[s].error \notin {Null, ValidationError} =>
            /\ Count(sess[s].calls, "saveModel") = 0
            /\ sess[s].pc = "done" =>
                  /\ Count(sess[s].calls, "onSubmitError") = 1
                  /\ Args(sess[s].calls, "onSubmitError") = {sess[s].error}

C5_Witness ==
    \E s \in Sessions :
        /\ sess[s].pc = "done"
        /\ sess[s].error = TransformError

\* C6: a ValidationError of validate(el) ends in submit(): neither
\* onSubmitError nor onSubmitted is called and submit() returns normally.
C6_ValidationErrorTerminal ==
    \A s \in Sessions :
        sess[s].error = ValidationError =>
            /\ sess[s].pc \in {"validate", "done"}
            /\ Count(sess[s].calls, "onSubmitError") = 0
            /\ Count(sess[s].calls, "onSubmitted") = 0

C6_Witness ==
    \E s \in Sessions :
        /\ sess[s].error = ValidationError
        /\ sess[s].pc = "done"
        /\ Count(sess[s].calls, "enableAllInputs") = 1

\* C7: when validation succeeds and saveModel resolves, onSubmitted is
\* called exactly once, after the save settled and before the cleanup, and
\* onSubmitError is not called.
C7_SubmittedOnce ==
    \A s \in Sessions :
        (sess[s].pc = "done" /\ sess[s].error = Null
            /\ sess[s].saveError = Null) =>
            /\ Count(sess[s].calls, "onSubmitted") = 1
            /\ Count(sess[s].calls, "onSubmitError") = 0
            /\ Count(sess[s].calls, "saveModel.settled") = 1
            /\ Before(sess[s].calls, "saveModel", "saveModel.settled")
            /\ Before(sess[s].calls, "saveModel.settled", "onSubmitted")
            /\ Before(sess[s].calls, "onSubmitted", "removeLoadingSpinner")
            /\ Before(sess[s].calls, "onSubmitted", "enableAllInputs")

C7_Witness ==
    \E s \in Sessions :
        /\ sess[s].pc = "done"
        /\ sess[s].error = Null
        /\ sess[s].saveError = Null
        /\ Count(sess[s].calls, "onSubmitted") = 1

\* C8: at no time are two submit() calls of the view in flight.
C8_NoOverlap == Cardinality(InFlight) <= 1

\* C9: when a new attempt starts to read the form, no mapped field carries
\* its error class any more, and every error message element is hidden and
\* empty.
C9_ErrorsCleared ==
    [][\A s \in Sessions :
          (sess[s].pc = "idle" /\ sess'[s].pc = "formValueReader") =>
              \A a \in DOMAIN sess'[s].modelFormMap :
                  LET map == sess'[s].modelFormMap[a]
                  IN  /\ map.errorClass \notin classList'[map.el]
                      /\ map.errorClass \notin classList'[map.errorClassEl]
                      /\ map.errorMessageEl # Null =>
                            /\ Hidden \in classList'[map.errorMessageEl]
                            /\ innerHTML'[map.errorMessageEl] = ""]_vars

\* C10: displaying a ValidationError adds the error class of every reported
\* field to its errorClassEl, and to the field element only where that is
\* the errorClassEl.
C10_ErrorClassTarget ==
    [][\A s \in Sessions :
          (sess[s].pc = "model.validate" /\ sess'[s].error = ValidationError) =>
              \A a \in DOMAIN sess'[s].errors :
                  LET map == sess[s].modelFormMap[a]
                  IN  /\ map.errorClass \in classList'[map.errorClassEl]
                      /\ map.errorClassEl # map.el =>
                            classList'[map.el] = classList[map.el]]_vars

\* The reported attributes a ValidationError's display has a message for:
\* mapped, with an error message element, reported with a code (and no
\* message of its own) that the field's errorMessages holds.
Scenario(m, errors) ==
    {a \in DOMAIN errors \cap DOMAIN m :
        /\ m[a].errorMessageEl # Null
        /\ errors[a].message = ""
        /\ errors[a].code \in DOMAIN m[a].errorMessages}

\* C11: when model.validate() raises a ValidationError reporting attribute A
\* with code C, and A's mapping has an error message element and
\* errorMessages[C] = M, the field gets its error class, the message
\* element shows M and is no longer hidden, and saveModel is never called.
C11_ScenarioDisplayed ==
    [][\A s \in Sessions :
          (sess[s].pc = "model.validate" /\ sess'[s].raised = ValidationError) =>
              /\ Count(sess'[s].calls, "saveModel") = 0
              /\ \A a \in Scenario(sess[s].modelFormMap, sess'[s].errors) :
                    LET map == sess[s].modelFormMap[a]
                    IN  /\ map.errorClass \in classList'[map.el]
                        /\ innerHTML'[map.errorMessageEl] =
                               map.errorMessages[sess'[s].errors[a].code]
                        /\ Hidden \notin classList'[map.errorMessageEl]]_vars

\* C12: a ValidationError reporting an attribute the Model-Form Map does not
\* have raises no other error: validate(el) rejects with the ValidationError
\* itself, and the reported attributes that are mapped are marked.
C12_AbsentAttributeIgnored ==
    [][\A s \in Sessions :
          (sess[s].pc = "model.validate" /\ sess'[s].raised = ValidationError) =>
              /\ sess'[s].error = ValidationError
              /\ \A a \in DOMAIN sess'[s].errors \cap DOMAIN sess[s].modelFormMap :
                    sess[s].modelFormMap[a].errorClass
                        \in classList'[sess[s].modelFormMap[a].el]]_vars

\* C13: normalize is idempotent: normalizing a normalized map changes no
\* descriptor.
C13_NormalizeIdempotent ==
    norm.stage = 2 => norm.twice = norm.once

C13_Witness ==
    /\ norm.stage = 2
    /\ "name" \in DOMAIN norm.raw
    /\ norm.raw["name"].transformValue = Hook
    /\ norm.raw["name"].errorClassEl = Null
    /\ norm.once # norm.raw

\* C14: normalize fills exactly the omitted transformValue, formValueReader,
\* errorClassEl and errorClass of every descriptor, with the identity, the
\* reader of the field's value, the field element and the view's
\* errorClass, and changes nothing the caller gave.
C14_NormalizeFillsDefaults ==
    norm.stage >= 1 =>
        /\ DOMAIN norm.once = DOMAIN norm.raw
        /\ \A a \in DOMAIN norm.raw :
            LET r == norm.raw[a]
                n == norm.once[a]
            IN  /\ n.transformValue =
                       IF r.transformValue = Null THEN "identity"
                       ELSE r.transformValue
                /\ n.formValueReader =
                       IF r.formValueReader = Null THEN "value"
                       ELSE r.formValueReader
                /\ n.errorClassEl =
                       IF r.errorClassEl = Null THEN r.el ELSE r.errorClassEl
                /\ n.errorClass =
                       IF r.errorClass = Null THEN norm.errorClass
                       ELSE r.errorClass
                /\ n.el = r.el
                /\ n.errorMessageEl = r.errorMessageEl
                /\ n.errorMessages = r.errorMessages
                /\ n.disableInput = r.disableInput
                /\ n.enableInput = r.enableInput

C14_Witness ==
    /\ norm.stage = 1
    /\ DOMAIN norm.raw = Attrs
    /\ norm.errorClass = "viewError"
    /\ norm.raw["email"].errorClass = "customError"
    /\ norm.raw["name"].errorClass = Null
    /\ norm.once["name"].errorClass = "viewError"

\* C15: a cancel click calls the cancel callback, once, and changes nothing
\* else: not the loading indicator, no disabled state, not the model, no
\* submission's progress or calls (so neither validate nor save is called).
C15_CancelFrame ==
    [][canceled' # canceled =>
          /\ canceled' = canceled + 1
          /\ UNCHANGED formVars]_vars

C15_Witness ==
    /\ canceled > 0
    /\ \E s \in Sessions : sess[s].pc = "saveModel"
    /\ spinner
    /\ disabled[SubmitBtn]

\* The selectors declared for the type of the last dispatched event.
Declared == eventListenersMap[dispatched.type]

\* The declared delegated selectors with a match on the target's ancestor
\* chain, in the last dispatch.
Matching ==
    {s \in {Declared[i] : i \in DOMAIN Declared} :
        s # "" /\ closest(dispatched.target, s) # Null}

FiredAt(s) == {i \in DOMAIN dispatched.fired : dispatched.fired[i].selector = s}

\* C16: after any sequence of addEventListeners / removeEventListeners the
\* view root has at most one live native listener per event type.
C16_OneListenerPerType == \A n \in EventNames : nativeListeners[n] <= 1

\* C17: after removeEventListeners no native listener that attachment
\* installed is left on the view root and no reference is stored.
C17_DetachRemovesAll ==
    lastOp = "removeEventListeners" =>
        /\ \A n \in EventNames : nativeListeners[n] = 0
        /\ actualEventListeners = {}

\* C18: in one dispatch the handler of a delegated selector fires only
\* after the handler of every declared selector whose matched element is
\* nearer to the event target, whatever the declaration order.
C18_InnerBeforeOuter ==
    \A i \in DOMAIN dispatched.fired :
        \A s \in Matching :
            (/\ dispatched.fired[i].selector # ""
             /\ Depth(closest(dispatched.target, s))
                    > Depth(dispatched.fired[i].target))
            => \E j \in FiredAt(s) : j < i

\* C19: in a dispatch of an event type with delegated selectors only, in
\* which no handler stops propagation or throws, every declared selector
\* matching an ancestor-or-self of the target has its handler fired exactly
\* once.
C19_BubblingEmulation ==
    /\ dispatched.type # Null
    /\ dispatched.listeners > 0
    /\ \A i \in DOMAIN Declared : Declared[i] # ""
    /\ dispatched.threw = Null
    /\ ~dispatched.nativeStopped
    => \A s \in Matching : Cardinality(FiredAt(s)) = 1

\* C20: after a delegated handler has called stopPropagation, no further
\* handler, the root handler included, fires in that dispatch, and the
\* native event has been stopped.
C20_StopPropagation ==
    \A i \in DOMAIN dispatched.fired :
        dispatched.fired[i].selector # "" /\ dispatched.fired[i].stopped
            => i = Len(dispatched.fired) /\ dispatched.nativeStopped

C20_Witness ==
    /\ dispatched.type = "click"
    /\ dispatched.fired # <<>>
    /\ dispatched.fired[1].selector # ""
    /\ dispatched.fired[1].stopped
    /\ \E i, j \in DOMAIN Declared :
          /\ i # j
          /\ Declared[i] = ""
          /\ Declared[j] \in Matching \ {dispatched.fired[1].selector}

DeclaredSet == {Declared[i] : i \in DOMAIN Declared}

\* C21: in a dispatch of an event type with a root handler declared, in
\* which no handler stops propagation or throws, the root handler is called
\* with the view as target, after the handler of every matching delegated
\* selector, wherever the empty key stands in the listener map.
C21_RootHandlerRuns ==
    /\ dispatched.type # Null
    /\ dispatched.listeners > 0
    /\ "" \in DeclaredSet
    /\ dispatched.threw = Null
    /\ ~dispatched.nativeStopped
    => \E i \in FiredAt("") :
          /\ dispatched.fired[i].target = ViewEl
          /\ \A s \in Matching : \E j \in FiredAt(s) : j < i

\* C22: in one run of the native listener, an error thrown by a handler
\* leaves the listener as thrown, and no handler is called after it.
C22_HandlerErrorPropagates ==
    dispatched.listeners = 1 =>
        \A i \in DOMAIN dispatched.fired :
            dispatched.fired[i].threw # Null
                => /\ dispatched.threw = dispatched.fired[i].threw
                   /\ i = Len(dispatched.fired)

C22_Witness ==
    /\ dispatched.type = "click"
    /\ dispatched.listeners = 1
    /\ dispatched.fired # <<>>
    /\ dispatched.fired[1].act = "throw"
    /\ dispatched.threw = HookError
    /\ \E s \in DeclaredSet \ {dispatched.fired[1].selector} :
          s = "" \/ s \in Matching

\* C23: a view whose onViewRemovedFromDOM the observer has called, with
\* nothing configured to suppress it, has had its cleanup() called from
\* within that hook.
C23_CleanupOnRemoval ==
    \A i \in DOMAIN hookLog :
        \E j \in DOMAIN cleanupLog :
            /\ cleanupLog[j].view = hookLog[i]
            /\ cleanupLog[j].from = "onViewRemovedFromDOM"

\* C24: a form control in a submission has a model object, supplied or
\* created, and reading the mapped fields into it does not fail: no
\* TypeError is raised before the model's validate is called.
C24_ModelCreated ==
    \A s \in Sessions :
        sess[s].pc # "idle" =>
            /\ model # NoModel
            /\ ~(/\ sess[s].error = TypeError
                 /\ Where(sess[s].calls, "model.validate") = {})

\* C25: a finished submission whose default saveModel made a create request
\* that failed has called onSubmitError with that error and has not called
\* onSubmitted.
C25_DefaultSaveFailure ==
    \A s \in Sessions :
        \A i \in Where(sess[s].calls, "fetch2") :
            sess[s].pc = "done" /\ sess[s].calls[i].arg # "ok"
                => /\ sess[s].calls[i].arg \in Args(sess[s].calls, "onSubmitError")
                   /\ Count(sess[s].calls, "onSubmitted") = 0

\* C26: the function runs at most once, and it has run whenever its
\* element is in the document, the timer has fired and the observer has
\* been given every record of an added node.
C26_RunsOnceOnDOM ==
    /\ onDom.ran <= 1
    /\ (/\ onDom.pc \notin {"idle", "timer"}
        /\ onDom.pending = <<>>
        /\ InDocument(onDom.element, detached))
       => onDom.ran = 1

\* The last response was ok or has a status the call lists as acceptable.
Accepted ==
    /\ fetchCall.net.kind = "response"
    /\ \/ ok(fetchCall.net.response)
       \/ fetchCall.net.response.status
              \in fetchCall.options.acceptableStatusCodes

\* C27: a settled call of fetch2 has returned only for an accepted
\* response, parsed as JSON or text when parsing is asked for; it has
\* thrown FetchError for a network failure of fetch(), the error fetch()
\* threw for any other exception, and HttpError with the response for a
\* response that is not accepted.
C27_FetchWrapper ==
    fetchCall.pc = "settled" =>
        /\ fetchCall.result.kind = "returns" =>
              /\ Accepted
              /\ fetchCall.options.parseResponse
                    => fetchCall.result.value.parsed \in {"json", "text"}
        /\ fetchCall.net.kind = "rejects" =>
              fetchCall.result =
                  IF fetchCall.net.error.network
                  THEN Throws([name |-> FetchError])
                  ELSE Throws(fetchCall.net.error)
        /\ (fetchCall.net.kind = "response" /\ ~Accepted) =>
              fetchCall.result =
                  Throws([name |-> HttpError,
                          response |-> fetchCall.net.response])

\* The place of a call in the sequence of steps of a submission, 0 for a
\* call that is not one of the steps.
StepRank(op) ==
    CASE op = "showLoadingSpinner" -> 1
      [] op = "getModelFormMap" -> 2
      [] op = "normalize" -> 3
      [] op = "disableAllInputs" -> 4
      [] op = "clearErrors" -> 5
      [] op \in {"formValueReader", "transformValue", "modelAttributeSetter"} -> 6
      [] op = "model.validate" -> 7
      [] op = "saveModel" -> 8
      [] op = "onSubmitted" -> 9
      [] op \in {"removeLoadingSpinner", "enableAllInputs"} -> 10
      [] OTHER -> 0

\* C28: the calls of one submission are made in the order of the steps:
\* loading indicator, map, normalize, disable, clear errors, read fields,
\* validate, save, submitted callback, cleanup; and no step is made twice.
C28_StrictSequence ==
    \A s \in Sessions :
        \A i, j \in DOMAIN sess[s].calls :
            LET ri == StepRank(sess[s].calls[i].op)
                rj == StepRank(sess[s].calls[j].op)
            IN  (i < j /\ ri > 0 /\ rj > 0) =>
                    /\ ri <= rj
                    /\ sess[s].calls[i].op = sess[s].calls[j].op => ri = 6

C28_Witness ==
    \E s \in Sessions :
        /\ sess[s].pc = "done"
        /\ {StepRank(sess[s].calls[i].op) : i \in DOMAIN sess[s].calls} \ {0}
              = 1..10
        /\ Cardinality(DOMAIN sess[s].modelFormMap) = 2

\* Attribute a was read, transformed and written, in that order, before
\* the i-th call of the submission.
WrittenBefore(calls, a, i) ==
    \E j1, j2, j3 \in 1..(i - 1) :
        /\ j1 < j2 /\ j2 < j3
        /\ calls[j1] = Call("formValueReader", a)
        /\ calls[j2] = Call("transformValue", a)
        /\ calls[j3] = Call("modelAttributeSetter", a)

\* C29: when the model's validate is called every mapped attribute has
\* been read, transformed and written; when saveModel is called, validate
\* was called before and did not fail, and every mapped attribute of the
\* model has a value.
C29_WritesBeforeValidate ==
    \A s \in Sessions :
        /\ \A i \in Where(sess[s].calls, "model.validate") :
              \A a \in DOMAIN sess[s].modelFormMap :
                  WrittenBefore(sess[s].calls, a, i)
        /\ \A i \in Where(sess[s].calls, "saveModel") :
              /\ \E j \in Where(sess[s].calls, "model.validate") : j < i
              /\ sess[s].error = Null
              /\ sess[s].raised = Null
              /\ \A a \in DOMAIN sess[s].modelFormMap : model[a] # Null

C29_Witness ==
    \E s \in Sessions :
        /\ Where(sess[s].calls, "saveModel") # {}
        /\ DOMAIN sess[s].modelFormMap = Attrs

\* The reported attributes with an error message element that the display
\* loop of validate(el) gets to: no earlier key of the errors ended the loop.
Displayed(m, errors) ==
    {a \in DOMAIN errors \cap DOMAIN m :
        /\ m[a].errorMessageEl # Null
        /\ \E n \in 1..Len(ErrKeys(errors)) :
              /\ ErrKeys(errors)[n] = a
              /\ \A k \in 1..(n - 1) :
                    LET b == ErrKeys(errors)[k]
                    IN  /\ b \in DOMAIN m
                        /\ \/ m[b].errorMessageEl # Null
                           \/ errors[b].code \notin DOMAIN m[b].errorMessages
                           \/ m[b].errorMessages[errors[b].code] = Hook}

\* C30: when validate(el) displays an error for a field with an error
\* message element, the element shows the error's own message if it has
\* one, else the table's entry for the error's code, else no text; in all
\* three cases the field carries the error class and the element is no
\* longer hidden.
C30_MessagePrecedence ==
    [][\A s \in Sessions :
          (sess[s].pc = "model.validate" /\ sess'[s].raised = ValidationError) =>
              \A a \in Displayed(sess[s].modelFormMap, sess'[s].errors) :
                  LET map == sess[s].modelFormMap[a]
                      error == sess'[s].errors[a]
                  IN  /\ innerHTML'[map.errorMessageEl] =
                             IF error.message # "" THEN error.message
                             ELSE IF error.code \in DOMAIN map.errorMessages
                                  THEN map.errorMessages[error.code]
                                  ELSE ""
                      /\ map.errorClass \in classList'[map.el]
                      /\ Hidden \notin classList'[map.errorMessageEl]]_vars

\* C31: a handler's call of stopPropagation or stopImmediatePropagation on
\* the event it was given completes, and stops the native event.
C31_StopCallsReachNative ==
    \A i \in DOMAIN dispatched.fired :
        dispatched.fired[i].act \in {"stopPropagation", "stopImmediatePropagation"}
            => /\ dispatched.fired[i].threw = Null
               /\ dispatched.fired[i].stopped
               /\ dispatched.nativeStopped

\* C32: every call of a delegated handler is given the view and the event,
\* and the event's delegatorTarget is an ancestor-or-self of the native
\* target that matches the handler's selector.
C32_DelegatorTarget ==
    \A i \in DOMAIN dispatched.fired :
        LET call == dispatched.fired[i]
        IN  call.selector # "" =>
                /\ call.arguments = <<"view", "clonedEvent">>
                /\ call.delegatorTarget # Null
                /\ Matches(call.delegatorTarget, call.selector)
                /\ \E k \in DOMAIN Path(dispatched.target) :
                      Path(dispatched.target)[k] = call.delegatorTarget

\* The views below a removed node, in document order, when the notifier
\* gets to the node.
ViewsBelow(n) ==
    SelectSeq(DocOrder, LAMBDA v : v \in controller /\ Below(v, n, detached))

\* C33: the notifier's hook calls for one removed node are: one call for
\* each view below the node, then, in a later step, one call for the node
\* itself if it is a view, and only then the calls for the next removed
\* node; no other step calls a hook, so a view outside the removed subtree
\* gets none.
C33_RemovalHookOrder ==
    [][/\ runs' = runs => hookLog' = hookLog
       /\ \A r \in DOMAIN runs' :
             IF r \notin DOMAIN runs
             THEN hookLog' = hookLog \o ViewsBelow(runs'[r].nodes[1])
             ELSE runs'[r] # runs[r] =>
                    LET node == runs[r].nodes[runs[r].idx]
                    IN  IF runs[r].phase = "awaitAll" /\ node \in controller
                        THEN /\ hookLog' = hookLog \o <<node>>
                             /\ runs'[r].idx = runs[r].idx
                        ELSE IF runs'[r].phase = "done"
                        THEN hookLog' = hookLog
                        ELSE /\ runs'[r].idx = runs[r].idx + 1
                             /\ hookLog' = hookLog \o
                                    ViewsBelow(runs[r].nodes[runs'[r].idx])]_vars

\* n1 was removed with the views v1 and v2 below it and is no view itself,
\* or v1 was removed with v2 below it: below first, v3 never.
C33_Witness ==
    /\ Len(runs) = 1
    /\ runs[1].phase = "done"
    /\ \/ runs[1].nodes = <<"n1">> /\ hookLog = <<"v1", "v2">>
       \/ runs[1].nodes = <<"v1">> /\ hookLog = <<"v2", "v1">>

\* The cleanup() runs of the controller of ViewNode.
Destroyed(log) == {i \in DOMAIN log : log[i].view = ViewNode}

\* C34: cleanup() runs at most once for a view, whether the application or
\* the removal hook calls it; when it has run the view root has no native
\* listener and the controller stores none, and an event dispatched later
\* calls no handler of the view.
C34_DestroyedOnce ==
    [][/\ Cardinality(Destroyed(cleanupLog')) <= 1
       /\ Destroyed(cleanupLog') # Destroyed(cleanupLog) =>
              /\ \A n \in EventNames : nativeListeners'[n] = 0
              /\ actualEventListeners' = {}
       /\ (Destroyed(cleanupLog) # {} /\ dispatches' # dispatches) =>
              dispatched'.fired = <<>>]_vars

\* C35: while a submit() call is in flight every element it disabled, the
\* submit button included, is disabled; and the cleanup of a call enables
\* exactly the elements that call disabled.
C35_DisabledWhileInFlight ==
    [][\A s \in Sessions :
          /\ sess'[s].pc \notin {"idle", "done", "threw"} =>
                \A e \in sess'[s].didDisable : Off(disabled', hooked', e)
          /\ Count(sess'[s].calls, "enableAllInputs")
                  > Count(sess[s].calls, "enableAllInputs") =>
                {e \in Elements : Off(disabled, hooked, e)
                                    /\ ~Off(disabled', hooked', e)}
                    = sess[s].didDisable]_vars

\* C36: when fetch() with useCache has returned and the background _fetch
\* has ended without an error, the collection holds one item per entry of
\* the server response, in response order, each built by _fetch, and none
\* built from the cached value.
C36_CollectionAfterFetch ==
    (/\ collection.pc = "called"
     /\ collection.useCache
     /\ collection.fetch = "returned"
     /\ collection._fetch = "done")
    => /\ stringify(collection.items) = collection.response
       /\ \A i \in DOMAIN collection.items : collection.items[i].by = "server"

\* The callbacks of a list of handlers or of calls, in order.
CallbacksOf(seq) == [i \in DOMAIN seq |-> seq[i].callback]

\* C37: trigger(name) calls the callbacks bound to name when it is called,
\* once each in binding order, then the callbacks bound to 'all' when it
\* is called, and no other callback.
C37_TriggerOrder ==
    [][(bus'.ops # bus.ops /\ bus'.last.op = "trigger") =>
          LET o == bus'.last.obj
              calls == bus'.last.calls
              named == bus.events[o][bus'.last.name]
          IN  /\ CallbacksOf(calls)
                     = CallbacksOf(named) \o CallbacksOf(bus.events[o]["all"])
              /\ \A i \in DOMAIN calls :
                    calls[i].as = IF i <= Len(named) THEN "name" ELSE "all"]_vars

\* x was triggered with two callbacks bound to it, one of which bound a
\* further callback to 'all' during the trigger, with a callback bound to
\* 'all' before and one bound to y only.
C37_Witness ==
    /\ bus.last.op = "trigger"
    /\ bus.last.name = "x"
    /\ Len(bus.last.calls) = 3
    /\ bus.last.calls[1].callback = "h"
    /\ bus.last.calls[2].as = "name"
    /\ bus.last.calls[3].as = "all"
    /\ Len(bus.events[bus.last.obj]["all"]) = 2
    /\ \E i \in DOMAIN bus.events[bus.last.obj]["y"] :
          \A j \in DOMAIN bus.last.calls :
              bus.last.calls[j].callback
                  # bus.events[bus.last.obj]["y"][i].callback

\* C38: off(name, callback, context) does not fail, takes out the handlers
\* of the object that match every argument given and leaves every other
\* handler as it was; a trigger that follows off() with no arguments calls
\* no callback.
C38_OffExact ==
    [][/\ (bus'.ops # bus.ops /\ bus'.last.op = "off") =>
             LET c == bus'.last
                 match(n, h) ==
                     /\ c.name = Null \/ c.name = n
                     /\ c.callback = Null \/ c.callback = h.callback
                     /\ c.context = Null \/ c.context = h.context
             IN  /\ c.threw = Null
                 /\ \A n \in Names :
                       bus'.events[c.obj][n] =
                           SelectSeq(bus.events[c.obj][n],
                                     LAMBDA h : ~match(n, h))
                 /\ \A o \in Objs \ {c.obj} : bus'.events[o] = bus.events[o]
       /\ (/\ bus.last.op = "off"
           /\ bus.last.name = Null
           /\ bus.last.callback = Null
           /\ bus.last.context = Null
           /\ bus'.ops # bus.ops
           /\ bus'.last.op = "trigger"
           /\ bus'.last.obj = bus.last.obj)
          => bus'.last.calls = <<>>]_vars

\* C39: l.stopListening() leaves on no object a handler that l bound with
\* listenTo, leaves every handler bound for another context as it was, and
\* a trigger that follows calls no callback l bound with listenTo.
C39_StopListening ==
    [][/\ (/\ bus'.ops # bus.ops
           /\ bus'.last.op = "stopListening"
           /\ bus'.last.obj = Null) =>
             \A o \in Objs, n \in Names :
                 /\ \A i \in DOMAIN bus'.events[o][n] :
                       bus'.events[o][n][i].listening # bus'.last.context
                 /\ SelectSeq(bus'.events[o][n],
                              LAMBDA h : h.context # bus'.last.context)
                       = SelectSeq(bus.events[o][n],
                                   LAMBDA h : h.context # bus'.last.context)
       /\ (/\ bus.last.op = "stopListening"
           /\ bus.last.obj = Null
           /\ bus'.ops # bus.ops
           /\ bus'.last.op = "trigger") =>
             \A i \in DOMAIN bus'.last.calls :
                 bus'.last.calls[i].listening # bus.last.context]_vars

\* l1 listened to both objects and has stopped listening; the handler l2
\* bound on a with listenTo is still there.
C39_Witness ==
    /\ bus.last.op = "stopListening"
    /\ bus.last.obj = Null
    /\ bus.last.context = "l1"
    /\ bus.last.calls = <<"a", "b">>
    /\ \E i \in DOMAIN bus.events["a"]["x"] :
          bus.events["a"]["x"][i].listening = "l2"

\* The calls of v's removal hook in a log.
HookCalls(log, v) == Cardinality({i \in DOMAIN log : log[i] = v})

\* C40: once cleanup() has run for a view, no step calls the view's removal
\* hook, whatever is removed from the document afterwards; and a cleanup()
\* of that view with no Events call made since the earlier one changes
\* nothing (the controllers, the bound handlers and the listening records
\* stay as they are) and raises no error.
C40_CleanupIdempotent ==
    [][\A v \in Views :
          LET ran == {i \in DOMAIN cleanupLog :
                         /\ cleanupLog[i].view = v
                         /\ cleanupLog[i].threw = Null}
          IN  ran # {} =>
                /\ HookCalls(hookLog', v) = HookCalls(hookLog, v)
                /\ (/\ Len(cleanupLog') > Len(cleanupLog)
                    /\ cleanupLog'[Len(cleanupLog')].view = v
                    /\ \E i \in ran : cleanupLog[i].ops = bus.ops) =>
                        /\ cleanupLog'[Len(cleanupLog')].threw = Null
                        /\ controller' = controller
                        /\ bus' = bus
                        /\ nativeListeners' = nativeListeners]_vars

\* v3's controller listened to a and b; its hook called cleanup() when the
\* element was removed, which unbound the handlers; the element was put
\* back and removed again, the observer ran without calling the hook, and
\* cleanup() was called once more.
C40_Witness ==
    /\ hookLog = <<ViewNode>>
    /\ Len(cleanupLog) = 2
    /\ \A i \in DOMAIN cleanupLog : cleanupLog[i].view = ViewNode
    /\ cleanupLog[1].ops = 2
    /\ cleanupLog[2].from = "call"
    /\ bus.last.op = "listenTo" /\ bus.last.threw = Null
    /\ \A o \in Objs : bus.events[o]["x"] = <<>>
    /\ ViewNode \in detached
    /\ domOps = 3
    /\ mutations = <<>>
    /\ Len(runs) = 2
    /\ \A r \in DOMAIN runs : runs[r].phase = "done"

====
